---- MODULE Spec2Model ----
(***************************************************************************)
(* thormotion: command dispatch and transport layer.                       *)
(*                                                                         *)
(* The module models one Thorlabs device (its Dispatcher, its UsbPrimitive *)
(* status cell, its Communicator with the inbound reassembly task) and the *)
(* process-wide device registry, as state machines translated from         *)
(*   src/src/messages/dispatcher.rs                                        *)
(*   src/src/devices/usb_primitive/{mod,communicator}.rs                   *)
(*   src/src/devices/utils.rs                                              *)
(* Four specifications share the variables:                                *)
(*   Spec          callers of the Dispatcher racing with dispatch          *)
(*   SpecInbound   the inbound task reassembling frames from transfers     *)
(*   SpecUsb       open / close / send on the Status cell                  *)
(*   SpecRegistry  the device registry and global_abort                    *)
(***************************************************************************)
EXTENDS Integers, Sequences, FiniteSets, TLC

(***************************************************************************)
(* Bounds of the model.                                                    *)
(***************************************************************************)
\* receiver / any_receiver / new_receiver calls in one run of Spec; each call
\* creates at most one broadcast channel
MaxCalls == 2
\* frames handed to Dispatcher::dispatch in one run of Spec
MaxDispatch == 2
\* nesting depth of the recursion in Dispatcher::new_receiver
MaxDepth == 2
\* frames in one inbound stream (SpecInbound)
MaxFrames == 2
\* operations completed on the Status cell in one run (SpecUsb)
MaxOps == 4
\* registry operations in one run (SpecRegistry)
MaxRegOps == 3

(***************************************************************************)
(* Command identifiers and frames.  Bytes are integers 0..255.             *)
(***************************************************************************)
GET_CHANENABLESTATE == <<18, 2>>     \* [0x12, 0x02]
MOVE_HOMED          == <<68, 4>>     \* [0x44, 0x04]
MOVE_COMPLETED      == <<100, 4>>    \* [0x64, 0x04]
MOVE_STOPPED        == <<102, 4>>    \* [0x66, 0x04]
GET_USTATUSUPDATE   == <<145, 4>>    \* [0x91, 0x04]
\* an identifier that is not registered: [0xAB, 0xCD]
UNKNOWN_ID          == <<171, 205>>

\* KDC101::IDS: the command IDs registered on the device's Dispatcher
IDS == {GET_CHANENABLESTATE, MOVE_HOMED, MOVE_COMPLETED, MOVE_STOPPED,
        GET_USTATUSUPDATE}

\* the identifiers callers ask receivers for in Spec
CallerIds == {MOVE_HOMED, MOVE_STOPPED}

\* inbound frames: MOVE_HOMED for channel 1 and for channel 2, MOVE_STOPPED
FrameHomedA  == <<68, 4, 1, 0, 1, 80>>
FrameHomedB  == <<68, 4, 2, 0, 1, 80>>
FrameStopped == <<102, 4, 14, 0, 129, 80,
                  1, 0, 16, 32, 48, 64, 5, 6, 0, 0, 7, 8, 9, 10>>
FrameChan    == <<18, 2, 1, 1, 1, 80>>
\* the 6 bytes of scenario S5, whose ID 0xCDAB is not registered
FrameUnknown == <<171, 205, 0, 0, 80, 1>>

\* transfers kept pending on the IN endpoint (communicator.rs:27)
N_TRANSFERS == 3

Procs == {"p1", "p2"}
NoOne == "none"

IdOf(frame) == <<frame[1], frame[2]>>

(***************************************************************************)
(* State.                                                                  *)
(***************************************************************************)
VARIABLES
  \* ---- Dispatcher (dispatcher.rs:73-75) ----
  slot,        \* [IDS -> 0..MaxCalls]: Option<Sender>; 0 is None, c is the sender of channel c
  mutex,       \* [IDS -> holder]: the async Mutex around each slot
  chan,        \* [1..MaxCalls -> record]: the broadcast channels created so far
  nextChan,    \* the next channel number broadcast(1) will hand out
  \* ---- callers (one async call per process at a time) ----
  pc,          \* [Procs -> label]
  op,          \* [Procs -> operation in progress]
  cid,         \* [Procs -> command ID argument]
  seen,        \* [Procs -> what `match &*opt` read from the slot]
  rx,          \* [Procs -> receiver held: [c, sees]]
  prov,        \* [Procs -> "New" | "Existing" | "none"]
  held,        \* [Procs -> Seq(channel)]: receivers kept alive by enclosing new_receiver frames
  out,         \* [Procs -> result of the last completed call]
  \* ---- Dispatcher::dispatch in the inbound task ----
  ipc,         \* position of the inbound task
  msg,         \* the frame being dispatched
  taken,       \* what Dispatcher::take returned (0 is None)
  nDispatch,   \* dispatch calls so far
  nCalls,      \* Dispatcher calls started so far
  \* ---- inbound reassembly (communicator.rs:97-142) ----
  stream,      \* bytes the device has still to deliver
  completion,  \* the completed transfer's buffer, status bytes included
  cstatus,     \* the completed transfer's status: "Ok" | "Err"
  queue,       \* VecDeque<u8> ring buffer
  idbuf,       \* reusable ID buffer
  flen,        \* the length looked up for idbuf
  pendingIn,   \* transfers pending on the IN endpoint
  \* ---- UsbPrimitive (usb_primitive/mod.rs:53-67) ----
  status,      \* "Open" | "Closed"
  rwWriter,    \* holder of the Status write lock
  rwReaders,   \* holders of the Status read lock
  outgoing,    \* frames submitted to the OUT endpoint
  nComm,       \* Communicators alive (inbound tasks running)
  upc,         \* [Procs -> position in open / close / send]
  uop,         \* [Procs -> "open" | "close" | "send" | "none"]
  uarg,        \* [Procs -> frame argument of send]
  ures,        \* [Procs -> result of the last completed open / close / send]
  ustat,       \* [Procs -> the status when the caller got its lock]
  \* ---- registry (utils.rs:58) and global_abort ----
  registry,    \* set of serial numbers with an abort callback
  regLock,     \* holder of the DEVICES mutex
  gaPc,        \* "none" | "called" | "draining" | "panicked"
  gaReason,    \* why global_abort was called
  drained,     \* entries drained and not yet invoked
  invoked,     \* [Serials -> number of times the callback ran]
  cbRunning,   \* the callback now running
  rpc,         \* position of the registry client
  rarg,        \* serial number argument of the registry client
  nRegOps,     \* registry operations so far
  \* ---- history variables, written and never read by the program ----
  handed,      \* [IDS -> set of [prov, c]]: receivers handed out since the last take
  firstAfter,  \* [IDS -> provenance of the first receiver call after the last take]
  dispatched,  \* frames passed to Dispatcher::dispatch, in order
  frames,      \* the frames the device sent (SpecInbound)
  bcast,       \* [1..MaxCalls -> frame broadcast on the channel, <<>> if none]
  obs,         \* [Procs -> [c, frame]]: what the last recv returned
  waited,      \* [Procs -> BOOL]: the call in progress waited for a pending request
  trace,       \* completed Status-cell operations, in lock order (SpecUsb)
  snapshot,    \* registry at the moment global_abort took the lock
  split,       \* a transfer ended in the middle of a frame (SpecInbound)
  \* ---- device objects (kdc101.rs:39-52, usb_primitive/mod.rs:243-250) ----
  life,        \* [Serials -> "none" | "live" | "dropped"]: the UsbPrimitive of a serial
  manager,     \* keys of DEVICE_MANAGER.devices (device_manager.rs:55-61)
  bus,         \* what list_devices() returns: sequence of [vendor, serial]
  newRes,      \* the last KDC101::new: [sn, res, enumerated]
  dropRes,     \* the last drop: [sn, open]: whose, and whether it was Open
  \* ---- a pure function applied to an input ----
  fname,       \* the function
  fin,         \* its argument
  fout,        \* [done, val]: its result once it has returned
  \* ---- set_channel_enable_state (functions/channel_enable_state.rs) ----
  outer,       \* [Procs -> channel of the receiver the enclosing match keeps alive, 0 if none]
  enable,      \* [Procs -> BOOLEAN]: the enable argument of the caller
  \* ---- bulk IN transfers given byte for byte ----
  transfers,   \* the completions the endpoint has still to report
  delivered,   \* the completions reported so far
  \* ---- the inbound task and its Communicator ----
  stale,       \* the inbound task's Communicator has been dropped (or none was ever built)
  \* ---- serial_port::init ----
  control,     \* control transfers and dwells since the interface was last claimed
  \* ---- the abort callback (KDC101::abort = estop) ----
  estop,       \* [pc, c, sees, prov]: the estop a running abort callback executes
  \* ---- the earlier UsbDevicePrimitive (enumeration/usb_device_primitive.rs) ----
  port         \* the waiting sender of one message group and the write_port calls on it

dispVars  == <<slot, mutex, chan, nextChan>>
callVars  == <<pc, op, cid, seen, rx, prov, held, out>>
inbVars   == <<ipc, msg, taken, nDispatch, nCalls>>
reasmVars == <<stream, completion, cstatus, queue, idbuf, flen, pendingIn>>
usbVars   == <<status, rwWriter, rwReaders, outgoing, nComm, upc, uop, uarg, ures, ustat>>
regVars   == <<registry, regLock, drained, invoked, cbRunning, rpc, rarg, nRegOps>>
gaVars    == <<gaPc, gaReason>>
histVars  == <<handed, firstAfter, dispatched, frames, bcast, obs, waited, trace, snapshot, split>>

lifeVars  == <<life, manager, bus, newRes, dropRes>>
pureVars  == <<fname, fin, fout>>

fnVars    == <<outer, enable>>
xferVars  == <<transfers, delivered>>
taskVars  == <<stale>>
ctlVars   == <<control>>
abortVars == <<estop>>
portVars  == <<port>>

vars == <<dispVars, callVars, inbVars, reasmVars, usbVars, regVars, gaVars, histVars,
          lifeVars, pureVars, fnVars, xferVars, ctlVars, abortVars, portVars, taskVars>>

Serials == {"27000001", "27000002"}

NoRx   == [c |-> 0, sees |-> FALSE]
NoChan == [used |-> FALSE, id |-> <<>>, rxs |-> 0, sender |-> FALSE,
           closed |-> FALSE, sent |-> <<>>, creator |-> NoOne, dropped |-> FALSE]
NoObs  == [c |-> 0, frame |-> <<>>]
NoNew  == [sn |-> "none", res |-> "none", enumerated |-> FALSE]
NoDrop == [sn |-> "none", open |-> FALSE]
NoResult == [done |-> FALSE, val |-> <<>>]
\* MessageGroup::new: waiting_sender is RwLock::new(None) (messages.rs:57);
\* no write_port call has been made
NoPort == [waiting_sender |-> 0,
           pc |-> [p \in Procs |-> "idle"],
           res |-> [p \in Procs |-> "none"],
           rx |-> [p \in Procs |-> 0],
           left |-> [p \in Procs |-> 0],
           next |-> 1,
           calls |-> 0,
           written |-> 0,
           read |-> 0,
           replaced |-> {},
           consumed |-> {}]

\* idVendor of the FTDI bridge in Thorlabs devices (utils.rs:162)
FTDI == 1027

\* both controllers are plugged in
BothConnected == <<[vendor |-> FTDI, serial |-> "27000001"],
                   [vendor |-> FTDI, serial |-> "27000002"]>>

\* the devices of the serial numbers in S have been constructed
Constructed(S) ==
  /\ life = [sn \in Serials |-> IF sn \in S THEN "live" ELSE "none"]
  /\ bus = BothConnected

\* the process is alive: global_abort has not been called
Alive == gaPc = "none"


(***************************************************************************)
(* global_abort (utils.rs:140-152).  The caller never gets control back:   *)
(* every other action is guarded by Alive.                                 *)
(***************************************************************************)
\* the call itself: control enters global_abort with a diagnostic
GlobalAbortCall(reason) ==
  /\ gaPc' = "called"
  /\ gaReason' = reason

\* DEVICES.get_or_init(..).lock().await.drain(): the guard is taken and the
\* map is emptied; the drained entries are iterated under the guard
GlobalAbortDrain ==
  /\ gaPc = "called"
  /\ regLock = NoOne
  /\ regLock' = "global_abort"
  /\ drained' = registry
  /\ registry' = {}
  /\ snapshot' = registry
  /\ gaPc' = "draining"
  /\ UNCHANGED <<gaReason, invoked, cbRunning, rpc, rarg, nRegOps>>
  /\ UNCHANGED <<dispVars, callVars, inbVars, reasmVars, usbVars>>
  /\ UNCHANGED <<handed, firstAfter, dispatched, frames, lifeVars, pureVars, fnVars, xferVars, ctlVars, abortVars, portVars, taskVars, bcast, obs, waited, trace, split>>

\* .for_each(|(_, f)| f()): the next drained callback is called
GlobalAbortInvoke(sn) ==
  /\ gaPc = "draining"
  /\ cbRunning = NoOne
  /\ sn \in drained
  /\ drained' = drained \ {sn}
  /\ invoked' = [invoked EXCEPT ![sn] = @ + 1]
  /\ cbRunning' = sn
  /\ UNCHANGED <<registry, regLock, rpc, rarg, nRegOps, gaVars>>
  /\ UNCHANGED <<dispVars, callVars, inbVars, reasmVars, usbVars, histVars, lifeVars, pureVars, fnVars, xferVars, ctlVars, abortVars, portVars, taskVars>>

\* the callback returns to the for_each loop
GlobalAbortCallbackReturn ==
  /\ gaPc = "draining"
  /\ cbRunning # NoOne
  /\ cbRunning' = NoOne
  /\ UNCHANGED <<registry, regLock, drained, invoked, rpc, rarg, nRegOps, gaVars>>
  /\ UNCHANGED <<dispVars, callVars, inbVars, reasmVars, usbVars, histVars, lifeVars, pureVars, fnVars, xferVars, ctlVars, abortVars, portVars, taskVars>>

\* a for_each that is left before the iterator is exhausted
ForEachAbandoned == TRUE

\* for_each has called every drained callback and the last one has returned
ForEachDone == drained = {} /\ cbRunning = NoOne

\* block_on returns, the guard is dropped, panic!("Abort due to error")
GlobalAbortPanic ==
  /\ gaPc = "draining"
  /\ ForEachDone
  /\ regLock' = NoOne
  /\ gaPc' = "panicked"
  /\ UNCHANGED <<registry, drained, invoked, cbRunning, rpc, rarg, nRegOps, gaReason>>
  /\ UNCHANGED <<dispVars, callVars, inbVars, reasmVars, usbVars, histVars, lifeVars, pureVars, fnVars, xferVars, ctlVars, abortVars, portVars, taskVars>>

GlobalAbort ==
  \/ GlobalAbortDrain
  \/ \E sn \in Serials : GlobalAbortInvoke(sn)
  \/ GlobalAbortCallbackReturn
  \/ GlobalAbortPanic

(***************************************************************************)
(* Broadcast channel, as the Dispatcher uses it (async_broadcast).         *)
(***************************************************************************)
\* broadcast(1): a fresh channel with one sender and one receiver
NewChannel(id, p) ==
  [used |-> TRUE, id |-> id, rxs |-> 1, sender |-> TRUE, closed |-> FALSE,
   sent |-> <<>>, creator |-> p, dropped |-> FALSE]

\* Sender::new_receiver: one more receiver, which sees what is sent from now on
AddReceiver(ch) == [ch EXCEPT !.rxs = @ + 1]

\* Receiver::drop: the channel closes with its last receiver
DropReceiver(ch, midwait) ==
  [ch EXCEPT !.rxs = @ - 1,
             !.closed = @ \/ ch.rxs = 1,
             !.dropped = @ \/ midwait]

\* Sender::drop: the channel closes with its only sender
DropSender(ch) == [ch EXCEPT !.sender = FALSE, !.closed = TRUE]

\* the receivers an unwinding new_receiver recursion drops
RECURSIVE DropHeld(_, _)
DropHeld(chs, hs) ==
  IF hs = <<>> THEN chs
  ELSE DropHeld([chs EXCEPT ![Head(hs)] = DropReceiver(@, FALSE)], Tail(hs))

\* a receiver has a message to read
HasMessage(r) == r.c # 0 /\ r.sees /\ chan[r.c].sent # <<>>

(***************************************************************************)
(* Dispatcher (dispatcher.rs).                                             *)
(***************************************************************************)
\* a slot mutex that never makes a caller wait
MutexNeverHeld(id) == TRUE

\* .lock().await on a slot mutex can complete (dispatcher.rs:96-97)
MutexFree(id) == mutex[id] = NoOne

\* a match that takes the None arm whatever the slot holds
AlwaysNone(v) == TRUE

\* match &*opt { None => .., Some(existing) => .. } (dispatcher.rs:131-133)
SlotIsNone(v) == v = 0

\* the guard is dropped when receiver returns
Unlock(p, id) == [mutex EXCEPT ![id] = IF @ = p THEN NoOne ELSE @]

\* a take that leaves the sender in the slot
PeekSlot(id) == slot

\* a take that empties every slot
TakeAll(id) == [i \in IDS |-> 0]

\* Option::take on the slot (dispatcher.rs:181)
TakeSlot(id) == [slot EXCEPT ![id] = 0]

\* a new_receiver that hands out whatever receiver it got
AnyReceiverReturns(o, pv) == TRUE

\* new_receiver hands the receiver to its caller only in the New arm
\* (dispatcher.rs:164-166)
NewReceiverReturns(o, pv) == o # "new_receiver" \/ pv = "New"

\* a caller starts receiver / any_receiver / new_receiver for an ID
CallUpTo(p, o, id, n) ==
  /\ Alive
  /\ pc[p] = "idle"
  /\ nCalls < n
  /\ nCalls' = nCalls + 1
  /\ pc' = [pc EXCEPT ![p] = "get"]
  /\ op' = [op EXCEPT ![p] = o]
  /\ cid' = [cid EXCEPT ![p] = id]
  /\ prov' = [prov EXCEPT ![p] = "none"]
  /\ out' = [out EXCEPT ![p] = "none"]
  /\ obs' = [obs EXCEPT ![p] = NoObs]
  /\ waited' = [waited EXCEPT ![p] = FALSE]
  /\ UNCHANGED <<seen, rx, held>>
  /\ UNCHANGED <<ipc, msg, taken, nDispatch>>
  /\ UNCHANGED <<dispVars, reasmVars, usbVars, regVars, gaVars>>
  /\ UNCHANGED <<handed, firstAfter, dispatched, frames, lifeVars, pureVars, fnVars, xferVars, ctlVars, abortVars, portVars, taskVars, bcast, trace, snapshot, split>>

\* a call on the Dispatcher, of at most MaxCalls
Call(p, o, id) == CallUpTo(p, o, id, MaxCalls)

\* let mut opt = self.get(id).await; match &*opt (dispatcher.rs:90-98,
\* 130-131): abort on an unregistered ID, otherwise take the slot mutex and
\* read the slot
Get(p) ==
  /\ Alive
  /\ pc[p] = "get"
  /\ IF cid[p] \notin IDS
     THEN /\ GlobalAbortCall("UnknownId")
          /\ UNCHANGED <<mutex, pc, seen>>
     ELSE /\ MutexFree(cid[p])
          /\ mutex' = [mutex EXCEPT ![cid[p]] = p]
          /\ seen' = [seen EXCEPT ![p] = slot[cid[p]]]
          /\ pc' = [pc EXCEPT ![p] =
                      IF SlotIsNone(slot[cid[p]]) THEN "insert" ELSE "existing"]
          /\ UNCHANGED gaVars
  /\ UNCHANGED <<slot, chan, nextChan>>
  /\ UNCHANGED <<op, cid, rx, prov, held, out>>
  /\ UNCHANGED <<inbVars, reasmVars, usbVars, regVars, histVars, lifeVars, pureVars, fnVars, xferVars, ctlVars, abortVars, portVars, taskVars>>

\* None => Provenance::New(Self::insert(&mut opt)) (dispatcher.rs:132, 107-111);
\* opt.replace(tx) drops whatever sender the slot held
Insert(p) ==
  /\ Alive
  /\ pc[p] = "insert"
  /\ LET id == cid[p]
         c == nextChan
         old == slot[id]
         ch1 == [chan EXCEPT ![c] = NewChannel(id, p)]
         ch2 == IF old = 0 THEN ch1 ELSE [ch1 EXCEPT ![old] = DropSender(@)]
     IN /\ chan' = DropHeld(ch2, held[p])
        /\ slot' = [slot EXCEPT ![id] = c]
        /\ nextChan' = c + 1
        /\ rx' = [rx EXCEPT ![p] = [c |-> c, sees |-> TRUE]]
        /\ mutex' = Unlock(p, id)
        /\ handed' = [handed EXCEPT ![id] = @ \cup {[prov |-> "New", c |-> c]}]
        /\ firstAfter' = [firstAfter EXCEPT ![id] = IF @ = "none" THEN "New" ELSE @]
  /\ prov' = [prov EXCEPT ![p] = "New"]
  /\ held' = [held EXCEPT ![p] = <<>>]
  /\ pc' = [pc EXCEPT ![p] = "have"]
  /\ UNCHANGED <<op, cid, seen, out>>
  /\ UNCHANGED <<inbVars, reasmVars, usbVars, regVars, gaVars>>
  /\ UNCHANGED <<dispatched, frames, lifeVars, pureVars, fnVars, xferVars, ctlVars, abortVars, portVars, taskVars, bcast, obs, waited, trace, snapshot, split>>

\* Some(existing) => Provenance::Existing(existing.new_receiver())
\* (dispatcher.rs:133)
Existing(p) ==
  /\ Alive
  /\ pc[p] = "existing"
  /\ LET id == cid[p]
         c == seen[p]
     IN /\ chan' = [chan EXCEPT ![c] = AddReceiver(@)]
        /\ rx' = [rx EXCEPT ![p] = [c |-> c, sees |-> chan[c].sent = <<>>]]
        /\ mutex' = Unlock(p, id)
        /\ handed' = [handed EXCEPT ![id] = @ \cup {[prov |-> "Existing", c |-> c]}]
        /\ firstAfter' = [firstAfter EXCEPT ![id] = IF @ = "none" THEN "Existing" ELSE @]
  /\ prov' = [prov EXCEPT ![p] = "Existing"]
  /\ pc' = [pc EXCEPT ![p] =
              IF NewReceiverReturns(op[p], "Existing") THEN "have" ELSE "pending"]
  /\ UNCHANGED <<slot, nextChan>>
  /\ UNCHANGED <<op, cid, seen, held, out>>
  /\ UNCHANGED <<inbVars, reasmVars, usbVars, regVars, gaVars>>
  /\ UNCHANGED <<dispatched, frames, lifeVars, pureVars, fnVars, xferVars, ctlVars, abortVars, portVars, taskVars, bcast, obs, waited, trace, snapshot, split>>

\* rx.new_receiver().recv() (dispatcher.rs:168): a second receiver on the
\* pending channel, which sees only what is broadcast after its creation
AwaitPending(p) ==
  /\ Alive
  /\ pc[p] = "pending"
  /\ pc' = [pc EXCEPT ![p] = IF chan[rx[p].c].sent = <<>> THEN "wait" ELSE "waitc"]
  /\ UNCHANGED <<op, cid, seen, rx, prov, held, out>>
  /\ UNCHANGED <<dispVars, inbVars, reasmVars, usbVars, regVars, gaVars, histVars, lifeVars, pureVars, fnVars, xferVars, ctlVars, abortVars, portVars, taskVars>>

\* the recv completes (with the frame, or with Closed) and new_receiver calls
\* itself (dispatcher.rs:168-170); rx stays alive in the enclosing frame
WaitDone(p) ==
  /\ Alive
  /\ pc[p] \in {"wait", "waitc"}
  /\ \/ pc[p] = "wait" /\ chan[rx[p].c].sent # <<>>
     \/ chan[rx[p].c].closed
  /\ Len(held[p]) < MaxDepth
  /\ held' = [held EXCEPT ![p] = Append(@, rx[p].c)]
  /\ rx' = [rx EXCEPT ![p] = NoRx]
  /\ prov' = [prov EXCEPT ![p] = "none"]
  /\ pc' = [pc EXCEPT ![p] = "get"]
  /\ waited' = [waited EXCEPT ![p] = TRUE]
  /\ UNCHANGED <<op, cid, seen, out>>
  /\ UNCHANGED <<dispVars, inbVars, reasmVars, usbVars, regVars, gaVars>>
  /\ UNCHANGED <<handed, firstAfter, dispatched, frames, lifeVars, pureVars, fnVars, xferVars, ctlVars, abortVars, portVars, taskVars, bcast, obs, trace, snapshot, split>>

\* the caller reads the frame from its receiver, which it then drops
Recv(p) ==
  /\ Alive
  /\ pc[p] = "have"
  /\ HasMessage(rx[p])
  /\ obs' = [obs EXCEPT ![p] = [c |-> rx[p].c, frame |-> chan[rx[p].c].sent[1]]]
  /\ out' = [out EXCEPT ![p] = "Ok"]
  /\ chan' = [chan EXCEPT ![rx[p].c] = DropReceiver(@, FALSE)]
  /\ rx' = [rx EXCEPT ![p] = NoRx]
  /\ pc' = [pc EXCEPT ![p] = "idle"]
  /\ op' = [op EXCEPT ![p] = "none"]
  /\ seen' = [seen EXCEPT ![p] = 0]
  /\ prov' = [prov EXCEPT ![p] = "none"]
  /\ UNCHANGED <<slot, mutex, nextChan>>
  /\ UNCHANGED <<cid, held>>
  /\ UNCHANGED <<inbVars, reasmVars, usbVars, regVars, gaVars>>
  /\ UNCHANGED <<handed, firstAfter, dispatched, frames, lifeVars, pureVars, fnVars, xferVars, ctlVars, abortVars, portVars, taskVars, bcast, waited, trace, snapshot, split>>

\* recv on a closed channel with nothing to read returns RecvError::Closed
RecvClosed(p) ==
  /\ Alive
  /\ pc[p] = "have"
  /\ ~HasMessage(rx[p])
  /\ chan[rx[p].c].closed
  /\ out' = [out EXCEPT ![p] = "Closed"]
  /\ chan' = [chan EXCEPT ![rx[p].c] = DropReceiver(@, FALSE)]
  /\ rx' = [rx EXCEPT ![p] = NoRx]
  /\ pc' = [pc EXCEPT ![p] = "idle"]
  /\ op' = [op EXCEPT ![p] = "none"]
  /\ seen' = [seen EXCEPT ![p] = 0]
  /\ prov' = [prov EXCEPT ![p] = "none"]
  /\ UNCHANGED <<slot, mutex, nextChan>>
  /\ UNCHANGED <<cid, held>>
  /\ UNCHANGED <<inbVars, reasmVars, usbVars, regVars, gaVars, histVars, lifeVars, pureVars, fnVars, xferVars, ctlVars, abortVars, portVars, taskVars>>

\* the caller drops its receiver while waiting (its future is cancelled)
DropRx(p) ==
  /\ Alive
  /\ pc[p] = "have"
  /\ ~HasMessage(rx[p])
  /\ out' = [out EXCEPT ![p] = "none"]
  /\ chan' = [chan EXCEPT ![rx[p].c] = DropReceiver(@, TRUE)]
  /\ rx' = [rx EXCEPT ![p] = NoRx]
  /\ pc' = [pc EXCEPT ![p] = "idle"]
  /\ op' = [op EXCEPT ![p] = "none"]
  /\ seen' = [seen EXCEPT ![p] = 0]
  /\ prov' = [prov EXCEPT ![p] = "none"]
  /\ UNCHANGED <<slot, mutex, nextChan>>
  /\ UNCHANGED <<cid, held>>
  /\ UNCHANGED <<inbVars, reasmVars, usbVars, regVars, gaVars, histVars, lifeVars, pureVars, fnVars, xferVars, ctlVars, abortVars, portVars, taskVars>>


(***************************************************************************)
(* Dispatcher::dispatch, run by the inbound task (dispatcher.rs:187-199).  *)
(***************************************************************************)
\* the frames the inbound task hands to dispatch in Spec
SpecFrames == {FrameHomedA, FrameHomedB, FrameStopped}

\* the inbound task has drained a frame from the ring buffer and calls
\* dispatcher.dispatch(msg) (communicator.rs:131-137)
InboundFrame(f) ==
  /\ Alive
  /\ ipc = "loop"
  /\ nDispatch < MaxDispatch
  /\ msg' = f
  /\ ipc' = "take"
  /\ nDispatch' = nDispatch + 1
  /\ UNCHANGED <<taken, nCalls>>
  /\ UNCHANGED <<dispVars, callVars, reasmVars, usbVars, regVars, gaVars, histVars, lifeVars, pureVars, fnVars, xferVars, ctlVars, abortVars, portVars, taskVars>>

\* self.take(id).await (dispatcher.rs:180-182, 190): lock the slot, take the
\* sender out, unlock; Dispatcher::get aborts on an unregistered ID
DispatchTake ==
  /\ Alive
  /\ ipc = "take"
  /\ LET id == IdOf(msg)
     IN IF id \notin IDS
        THEN /\ GlobalAbortCall("UnknownId")
             /\ UNCHANGED <<slot, taken, ipc, handed, firstAfter>>
        ELSE /\ MutexFree(id)
             /\ taken' = slot[id]
             /\ slot' = TakeSlot(id)
             /\ ipc' = IF slot[id] = 0 THEN "ret" ELSE "bcast"
             /\ handed' = [handed EXCEPT ![id] = {}]
             /\ firstAfter' = [firstAfter EXCEPT ![id] = "none"]
             /\ UNCHANGED gaVars
  /\ UNCHANGED <<mutex, chan, nextChan, msg, nDispatch, nCalls>>
  /\ UNCHANGED <<callVars, reasmVars, usbVars, regVars>>
  /\ UNCHANGED <<dispatched, frames, lifeVars, pureVars, fnVars, xferVars, ctlVars, abortVars, portVars, taskVars, bcast, obs, waited, trace, snapshot, split>>

\* sender.broadcast_direct(data).await.unwrap_or_else(global_abort)
\* (dispatcher.rs:194-197): an error on a closed channel aborts; otherwise the
\* frame is queued for every receiver and the sender is dropped with the block
DispatchBroadcast ==
  /\ Alive
  /\ ipc = "bcast"
  /\ IF chan[taken].closed
     THEN /\ GlobalAbortCall("BroadcastFailed")
          /\ UNCHANGED <<chan, bcast, ipc>>
     ELSE /\ chan' = [chan EXCEPT ![taken] = DropSender([@ EXCEPT !.sent = <<msg>>])]
          /\ bcast' = [bcast EXCEPT ![taken] = msg]
          /\ ipc' = "ret"
          /\ UNCHANGED gaVars
  /\ UNCHANGED <<slot, mutex, nextChan, msg, taken, nDispatch, nCalls>>
  /\ UNCHANGED <<callVars, reasmVars, usbVars, regVars>>
  /\ UNCHANGED <<handed, firstAfter, dispatched, frames, lifeVars, pureVars, fnVars, xferVars, ctlVars, abortVars, portVars, taskVars, obs, waited, trace, snapshot, split>>

\* dispatch has returned to the frame loop (communicator.rs:137-138)
DispatchReturn ==
  /\ Alive
  /\ ipc = "ret"
  /\ ipc' = "loop"
  /\ UNCHANGED <<msg, taken, nDispatch, nCalls>>
  /\ UNCHANGED <<dispVars, callVars, reasmVars, usbVars, regVars, gaVars, histVars, lifeVars, pureVars, fnVars, xferVars, ctlVars, abortVars, portVars, taskVars>>

Dispatch ==
  \/ DispatchTake
  \/ DispatchBroadcast
  \/ DispatchReturn

(***************************************************************************)
(* Spec: callers of one Dispatcher race with the inbound task's dispatch.  *)
(* The device is registered; the registry holds its abort callback.        *)
(***************************************************************************)
\* no call on the Dispatcher has been made yet
InitCallersOf(n) ==
  /\ slot = [i \in IDS |-> 0]
  /\ mutex = [i \in IDS |-> NoOne]
  /\ chan = [c \in 1..n |-> NoChan]
  /\ nextChan = 1
  /\ pc = [p \in Procs |-> "idle"]
  /\ op = [p \in Procs |-> "none"]
  /\ cid = [p \in Procs |-> MOVE_HOMED]
  /\ seen = [p \in Procs |-> 0]
  /\ rx = [p \in Procs |-> NoRx]
  /\ prov = [p \in Procs |-> "none"]
  /\ held = [p \in Procs |-> <<>>]
  /\ out = [p \in Procs |-> "none"]
  /\ nCalls = 0
  /\ handed = [i \in IDS |-> {}]
  /\ firstAfter = [i \in IDS |-> "none"]

InitCallers == InitCallersOf(MaxCalls)

\* everything else is at rest; there is room for n channels
InitRestOf(n) ==
  /\ upc = [p \in Procs |-> "idle"]
  /\ uop = [p \in Procs |-> "none"]
  /\ uarg = [p \in Procs |-> <<>>]
  /\ ures = [p \in Procs |-> "none"]
  /\ ustat = [p \in Procs |-> "none"]
  /\ msg = <<>>
  /\ taken = 0
  /\ nDispatch = 0
  /\ completion = <<>>
  /\ cstatus = "Ok"
  /\ queue = <<>>
  /\ idbuf = <<0, 0>>
  /\ flen = 0
  /\ rwWriter = NoOne
  /\ rwReaders = {}
  /\ outgoing = <<>>
  /\ regLock = NoOne
  /\ gaPc = "none"
  /\ gaReason = "none"
  /\ drained = {}
  /\ invoked = [sn \in Serials |-> 0]
  /\ cbRunning = NoOne
  /\ rpc = "idle"
  /\ rarg = "27000001"
  /\ nRegOps = 0
  /\ dispatched = <<>>
  /\ bcast = [c \in 1..n |-> <<>>]
  /\ obs = [p \in Procs |-> NoObs]
  /\ waited = [p \in Procs |-> FALSE]
  /\ trace = <<>>
  /\ snapshot = {}
  /\ split = FALSE
  /\ outer = [p \in Procs |-> 0]
  /\ control = <<>>
  /\ estop = [pc |-> "none", c |-> 0, sees |-> FALSE, prov |-> "none"]
  /\ port = NoPort
  /\ delivered = <<>>
  /\ manager = {}
  /\ newRes = NoNew
  /\ dropRes = NoDrop

InitRest == InitRestOf(MaxCalls)

\* no pure function is under test and no transfer is given byte for byte
InitNoFunction ==
  /\ transfers = <<>>
  /\ fname = "none"
  /\ fin = <<>>
  /\ fout = NoResult
  /\ enable = [p \in Procs |-> TRUE]

InitCommon ==
  /\ InitCallers
  /\ InitRest
  /\ InitNoFunction

Init ==
  /\ InitCommon
  /\ ipc = "loop"
  /\ stream = <<>>
  /\ frames = <<>>
  /\ pendingIn = N_TRANSFERS
  /\ status = "Open"
  /\ stale = FALSE
  /\ nComm = 1
  /\ registry = {"27000001"}
  /\ Constructed(registry)

\* any_receiver is receiver followed by Provenance::unwrap, which changes no
\* state (dispatcher.rs:153-155): the two are one operation here
Ops == {"receiver", "new_receiver"}

Caller(p) ==
  \/ \E o \in Ops, id \in CallerIds \cup {UNKNOWN_ID} : Call(p, o, id)
  \/ Get(p)
  \/ Insert(p)
  \/ Existing(p)
  \/ AwaitPending(p)
  \/ WaitDone(p)
  \/ Recv(p)
  \/ RecvClosed(p)
  \/ DropRx(p)

Next ==
  \/ \E p \in Procs : Caller(p)
  \/ \E f \in SpecFrames : InboundFrame(f)
  \/ Dispatch
  \/ GlobalAbort

Spec == Init /\ [][Next]_vars


(***************************************************************************)
(* Claims checked under Spec.                                              *)
(***************************************************************************)
News(id) == {h \in handed[id] : h.prov = "New"}

\* C1: between two takes of a slot, however the receiver(x) calls interleave,
\* at most one of them returns Provenance::New, and every Existing receiver
\* handed out is bound to the channel that the New call installed.
C1_AtMostOneNew ==
  \A id \in IDS :
    /\ Cardinality(News(id)) <= 1
    /\ \A h \in handed[id] :
         h.prov = "Existing" => [prov |-> "New", c |-> h.c] \in handed[id]

\* two calls for one ID overlapped: one got New, the other Existing
C1_Witness ==
  \E id \in IDS :
    /\ Cardinality(handed[id]) = 2
    /\ \A p \in Procs : pc[p] = "have" /\ cid[p] = id

\* C2 as stated: when dispatch of a frame with ID x has returned, slot x is None.
C2_SlotNoneAtReturn ==
  ipc = "ret" => slot[IdOf(msg)] = 0

\* C2 amended: dispatch empties the slot before it broadcasts, so the sender it
\* broadcasts on is never in the slot again; a sender in a slot has never been
\* broadcast on and was installed by a New call after the last take; the first
\* receiver call to lock the slot after a take returns New.
C2_TakeBeforeBroadcast ==
  /\ ipc \in {"bcast", "ret"} /\ taken # 0 => slot[IdOf(msg)] # taken
  /\ \A id \in IDS :
       /\ slot[id] # 0 =>
            /\ chan[slot[id]].sent = <<>>
            /\ chan[slot[id]].sender
            /\ [prov |-> "New", c |-> slot[id]] \in handed[id]
       /\ firstAfter[id] \in {"none", "New"}

\* dispatch took a sender, and a receiver call that came after the take got New
C2_Witness ==
  /\ ipc = "ret"
  /\ taken # 0
  /\ firstAfter[IdOf(msg)] = "New"

\* C3: every receiver obtained for x since the last dispatch and still waiting
\* is bound to the sender the next dispatch takes; once dispatch has broadcast
\* on a channel every receiver of it reads the one buffer dispatch was given;
\* and a broadcast fails only on a channel one of whose receivers was dropped.
C3_FanOut ==
  /\ \A p \in Procs :
       pc[p] = "have" /\ chan[rx[p].c].sent = <<>> =>
         \/ slot[cid[p]] = rx[p].c
         \/ ipc = "bcast" /\ taken = rx[p].c
  /\ \A p \in Procs :
       pc[p] = "have" /\ bcast[rx[p].c] # <<>> =>
         HasMessage(rx[p]) /\ chan[rx[p].c].sent = <<bcast[rx[p].c]>>
  /\ \A p \in Procs : obs[p].c # 0 => obs[p].frame = bcast[obs[p].c]
  /\ gaReason = "BroadcastFailed" => chan[taken].dropped

\* two receivers of one channel have both read the dispatched frame
C3_Witness ==
  /\ obs["p1"].c # 0
  /\ obs["p1"].c = obs["p2"].c
  /\ obs["p1"].frame = obs["p2"].frame

\* C4: dropping receivers never makes dispatch fail: no global abort is raised
\* by the broadcast, also when no receiver remains.
C4_DropNeverAborts ==
  gaReason # "BroadcastFailed"

\* C9: whenever new_receiver(x) returns, its receiver is Provenance::New: the
\* call found slot x empty, installed the sender of a channel it created itself
\* and on which nothing has been broadcast yet.
C9_NewReceiverIsFresh ==
  [][\A p \in Procs :
       (op[p] = "new_receiver" /\ pc[p] # "have" /\ pc'[p] = "have") =>
         /\ prov'[p] = "New"
         /\ slot[cid[p]] = 0
         /\ slot'[cid[p]] = rx'[p].c
         /\ chan'[rx'[p].c].creator = p
         /\ chan'[rx'[p].c].sent = <<>>
         /\ bcast[rx'[p].c] = <<>>]_vars

\* a new_receiver call waited for a pending request and then returned
C9_Witness ==
  \E p \in Procs :
    /\ pc[p] = "have"
    /\ op[p] = "new_receiver"
    /\ waited[p]


(***************************************************************************)
(* Inbound reassembly: the background task of the Communicator             *)
(* (communicator.rs:97-142).                                               *)
(***************************************************************************)
\* the two prefix bytes in front of the data of every IN transfer
StatusBytes == <<255, 255>>

\* the descriptor table of the KDC101: header-only responses are 6 bytes,
\* the payload responses 20
Descriptor ==
  [id \in IDS |-> IF id \in {GET_CHANENABLESTATE, MOVE_HOMED} THEN 6 ELSE 20]

\* Dispatcher::length: the frame length registered for an ID; 0 stands for the
\* global abort on an ID that is not registered
length(id) == IF id \in IDS THEN Descriptor[id] ELSE 0

\* an extend that copies the prefix bytes too
NoSkip(buf) == buf

\* completion.buffer.iter().skip(2) (communicator.rs:110)
SkipPrefix(buf) == SubSeq(buf, 3, Len(buf))

\* queue.get(5).is_some() (communicator.rs:112)
QueueHasHeader(q) == Len(q) >= 6

RECURSIVE Concat(_)
Concat(fs) == IF fs = <<>> THEN <<>> ELSE Head(fs) \o Concat(Tail(fs))

\* endpoint.next_complete().await (communicator.rs:102-103): the oldest
\* pending transfer completes with the prefix bytes and the next k bytes of
\* the device's stream
TransferComplete(k) ==
  /\ Alive
  /\ ipc = "wait"
  /\ pendingIn > 0
  /\ k <= Len(stream)
  /\ completion' = StatusBytes \o SubSeq(stream, 1, k)
  /\ cstatus' = "Ok"
  /\ stream' = SubSeq(stream, k + 1, Len(stream))
  /\ pendingIn' = pendingIn - 1
  /\ ipc' = "completed"
  /\ UNCHANGED <<queue, idbuf, flen>>
  /\ UNCHANGED <<msg, taken, nDispatch, nCalls>>
  /\ UNCHANGED <<dispVars, callVars, usbVars, regVars, gaVars, histVars, lifeVars, pureVars, fnVars, xferVars, ctlVars, abortVars, portVars, taskVars>>

\* the oldest pending transfer completes with an error status, reporting n
\* bytes: n of the prefix bytes if n <= 2, else the prefix and n - 2 bytes of
\* the stream (communicator.rs:102-103)
TransferError(n) ==
  /\ Alive
  /\ ipc = "wait"
  /\ pendingIn > 0
  /\ n <= 2 + Len(stream)
  /\ completion' = SubSeq(StatusBytes \o stream, 1, n)
  /\ cstatus' = "Err"
  /\ stream' = IF n > 2 THEN SubSeq(stream, n - 1, Len(stream)) ELSE stream
  /\ pendingIn' = pendingIn - 1
  /\ ipc' = "completed"
  /\ UNCHANGED <<queue, idbuf, flen>>
  /\ UNCHANGED <<msg, taken, nDispatch, nCalls>>
  /\ UNCHANGED <<dispVars, callVars, usbVars, regVars, gaVars, histVars, lifeVars, pureVars, fnVars, xferVars, ctlVars, abortVars, portVars, taskVars>>

\* a listen loop that tests the status before the length of the completion
InspectStatusFirst ==
  /\ Alive
  /\ ipc = "completed"
  /\ IF cstatus = "Err"
     THEN /\ GlobalAbortCall("TransferError")
          /\ UNCHANGED <<queue, ipc>>
     ELSE /\ UNCHANGED gaVars
          /\ IF Len(completion) > 2
             THEN /\ queue' = queue \o SkipPrefix(completion)
                  /\ ipc' = "loop"
             ELSE /\ UNCHANGED queue
                  /\ ipc' = "resubmit"
  /\ UNCHANGED <<stream, completion, cstatus, idbuf, flen, pendingIn>>
  /\ UNCHANGED <<msg, taken, nDispatch, nCalls>>
  /\ UNCHANGED <<dispVars, callVars, usbVars, regVars, histVars, lifeVars, pureVars, fnVars, xferVars, ctlVars, abortVars, portVars, taskVars>>

\* if completion.actual_len > 2 { completion.status?; queue.extend(skip(2)) }
\* (communicator.rs:104-111); the `?` ends listen with the error, which
\* handle_error turns into an abort (communicator.rs:71-77, 144-148)
Inspect ==
  /\ Alive
  /\ ipc = "completed"
  /\ IF Len(completion) > 2
     THEN IF cstatus = "Err"
          THEN /\ GlobalAbortCall("TransferError")
               /\ UNCHANGED <<queue, ipc>>
          ELSE /\ queue' = queue \o SkipPrefix(completion)
               /\ ipc' = "loop"
               /\ UNCHANGED gaVars
     ELSE /\ UNCHANGED <<queue, gaVars>>
          /\ ipc' = "resubmit"
  /\ UNCHANGED <<stream, completion, cstatus, idbuf, flen, pendingIn>>
  /\ UNCHANGED <<msg, taken, nDispatch, nCalls>>
  /\ UNCHANGED <<dispVars, callVars, usbVars, regVars, histVars, lifeVars, pureVars, fnVars, xferVars, ctlVars, abortVars, portVars, taskVars>>

\* a frame loop that drops the header of an unregistered ID and goes on
FrameLoopSkipUnknown ==
  /\ Alive
  /\ ipc = "loop"
  /\ IF ~QueueHasHeader(queue)
     THEN /\ ipc' = "resubmit"
          /\ split' = (split \/ queue # <<>>)
          /\ UNCHANGED <<queue, idbuf, flen, msg, dispatched>>
     ELSE LET id == <<queue[1], queue[2]>>
              len == length(id)
          IN /\ idbuf' = id
             /\ IF len = 0
                THEN /\ queue' = SubSeq(queue, 7, Len(queue))
                     /\ UNCHANGED <<ipc, flen, msg, dispatched, split>>
                ELSE /\ flen' = len
                     /\ IF Len(queue) < len
                        THEN /\ ipc' = "resubmit"
                             /\ split' = TRUE
                             /\ UNCHANGED <<queue, msg, dispatched>>
                        ELSE /\ msg' = SubSeq(queue, 1, len)
                             /\ queue' = SubSeq(queue, len + 1, Len(queue))
                             /\ dispatched' = Append(dispatched, SubSeq(queue, 1, len))
                             /\ ipc' = "take"
                             /\ UNCHANGED split
  /\ UNCHANGED <<stream, completion, cstatus, pendingIn, taken, nDispatch, nCalls>>
  /\ UNCHANGED <<dispVars, callVars, usbVars, regVars, gaVars>>
  /\ UNCHANGED <<handed, firstAfter, frames, lifeVars, pureVars, fnVars, xferVars, ctlVars, abortVars, portVars, taskVars, bcast, obs, waited, trace, snapshot>>

\* one test of the while condition and one pass through the loop body
\* (communicator.rs:112-137): copy the ID, look its length up, break on an
\* incomplete frame, otherwise drain the frame and call dispatch
FrameLoop ==
  /\ Alive
  /\ ipc = "loop"
  /\ IF ~QueueHasHeader(queue)
     THEN /\ ipc' = "resubmit"
          /\ split' = (split \/ queue # <<>>)
          /\ UNCHANGED <<queue, idbuf, flen, msg, dispatched, gaVars>>
     ELSE LET id == <<queue[1], queue[2]>>
              len == length(id)
          IN /\ idbuf' = id
             /\ IF len = 0
                THEN /\ GlobalAbortCall("UnknownId")
                     /\ UNCHANGED <<ipc, queue, flen, msg, dispatched, split>>
                ELSE /\ flen' = len
                     /\ UNCHANGED gaVars
                     /\ IF Len(queue) < len
                        THEN /\ ipc' = "resubmit"
                             /\ split' = TRUE
                             /\ UNCHANGED <<queue, msg, dispatched>>
                        ELSE /\ msg' = SubSeq(queue, 1, len)
                             /\ queue' = SubSeq(queue, len + 1, Len(queue))
                             /\ dispatched' = Append(dispatched, SubSeq(queue, 1, len))
                             /\ ipc' = "take"
                             /\ UNCHANGED split
  /\ UNCHANGED <<stream, completion, cstatus, pendingIn, taken, nDispatch, nCalls>>
  /\ UNCHANGED <<dispVars, callVars, usbVars, regVars>>
  /\ UNCHANGED <<handed, firstAfter, frames, lifeVars, pureVars, fnVars, xferVars, ctlVars, abortVars, portVars, taskVars, bcast, obs, waited, trace, snapshot>>

\* completion.buffer.clear(); endpoint.submit(completion.buffer)
\* (communicator.rs:140-141), then the next turn of the outer loop
Resubmit ==
  /\ Alive
  /\ ipc = "resubmit"
  /\ completion' = <<>>
  /\ cstatus' = "Ok"
  /\ pendingIn' = pendingIn + 1
  /\ ipc' = "wait"
  /\ UNCHANGED <<stream, queue, idbuf, flen>>
  /\ UNCHANGED <<msg, taken, nDispatch, nCalls>>
  /\ UNCHANGED <<dispVars, callVars, usbVars, regVars, gaVars, histVars, lifeVars, pureVars, fnVars, xferVars, ctlVars, abortVars, portVars, taskVars>>

Inbound ==
  \/ \E k \in 0..Len(stream) : TransferComplete(k)
  \/ \E n \in 0..3 : TransferError(n)
  \/ Inspect
  \/ FrameLoop
  \/ Resubmit

\* the frames a device may put on the wire in SpecInbound
InFrames == {FrameHomedA, FrameHomedB, FrameChan, FrameStopped, FrameUnknown}
FrameSeqs == UNION {[1..n -> InFrames] : n \in 1..MaxFrames}

\* the Dispatcher when the frames arrive: nobody waits for MOVE_HOMED
\* ("none"), p1 has called receiver(MOVE_HOMED) and waits ("live"), or p1 has
\* called it and dropped the receiver ("dropped")
InitWaiter(w) ==
  /\ mutex = [i \in IDS |-> NoOne]
  /\ seen = [p \in Procs |-> 0]
  /\ held = [p \in Procs |-> <<>>]
  /\ out = [p \in Procs |-> "none"]
  /\ cid = [p \in Procs |-> MOVE_HOMED]
  /\ slot = [i \in IDS |-> IF w # "none" /\ i = MOVE_HOMED THEN 1 ELSE 0]
  /\ nextChan = IF w = "none" THEN 1 ELSE 2
  /\ nCalls = IF w = "none" THEN 0 ELSE 1
  /\ chan = [c \in 1..MaxCalls |->
               IF c # 1 \/ w = "none" THEN NoChan
               ELSE IF w = "live" THEN NewChannel(MOVE_HOMED, "p1")
               ELSE DropReceiver(NewChannel(MOVE_HOMED, "p1"), TRUE)]
  /\ pc = [p \in Procs |-> IF w = "live" /\ p = "p1" THEN "have" ELSE "idle"]
  /\ op = [p \in Procs |-> IF w = "live" /\ p = "p1" THEN "receiver" ELSE "none"]
  /\ prov = [p \in Procs |-> IF w = "live" /\ p = "p1" THEN "New" ELSE "none"]
  /\ rx = [p \in Procs |->
             IF w = "live" /\ p = "p1" THEN [c |-> 1, sees |-> TRUE] ELSE NoRx]
  /\ handed = [i \in IDS |-> IF w # "none" /\ i = MOVE_HOMED
                              THEN {[prov |-> "New", c |-> 1]} ELSE {}]
  /\ firstAfter = [i \in IDS |-> IF w # "none" /\ i = MOVE_HOMED
                                  THEN "New" ELSE "none"]

\* the device is open, N_TRANSFERS transfers are pending, and the device is
\* about to send some frames
InitInbound ==
  /\ InitRest
  /\ InitNoFunction
  /\ \E w \in {"none", "live", "dropped"} : InitWaiter(w)
  /\ ipc = "wait"
  /\ frames \in FrameSeqs
  /\ stream = Concat(frames)
  /\ pendingIn = N_TRANSFERS
  /\ status = "Open"
  /\ stale = FALSE
  /\ nComm = 1
  /\ registry = {"27000001"}
  /\ Constructed(registry)

\* the waiting caller reads the frame dispatch broadcast
NextInbound ==
  \/ Inbound
  \/ Dispatch
  \/ Recv("p1")
  \/ GlobalAbort

SpecInbound == InitInbound /\ [][NextInbound]_vars

(***************************************************************************)
(* Claims checked under SpecInbound.                                       *)
(***************************************************************************)
AllValid(fs) == \A i \in 1..Len(fs) : IdOf(fs[i]) \in IDS
IsPrefix(s, t) == Len(s) <= Len(t) /\ SubSeq(t, 1, Len(s)) = s

\* C5: if every frame of the stream has a registered ID, then however the
\* transfers cut the stream the frames passed to dispatch are, byte for byte
\* and in order, a prefix of the frames sent; no byte is lost or invented on
\* the way; the reassembly never aborts for an unknown ID; and once the task
\* waits again with the whole stream delivered, exactly the M frames sent
\* have been dispatched.
C5_DispatchesFramesInOrder ==
  AllValid(frames) =>
    /\ IsPrefix(dispatched, frames)
    /\ Concat(dispatched) \o queue
         \o (IF ipc = "completed"
             THEN SubSeq(completion, 3, Len(completion)) ELSE <<>>)
         \o stream = Concat(frames)
    /\ gaReason # "UnknownId"
    /\ (stream = <<>> /\ ipc = "wait") => (dispatched = frames /\ queue = <<>>)

\* two valid frames were cut in the middle of a frame and both dispatched
C5_Witness ==
  /\ AllValid(frames)
  /\ Len(frames) >= 2
  /\ split
  /\ stream = <<>>
  /\ ipc = "wait"
  /\ dispatched = frames

\* C6: a frame whose ID is not registered is never passed to dispatch and
\* nothing after it is; with its header at the front of the ring buffer the
\* task is in the frame loop or in the dispatch of the frame before, and it
\* leaves the loop only into global_abort, so it never waits for a transfer
\* again once such a frame has been delivered.
C6_UnknownIdAborts ==
  /\ \A i \in 1..Len(dispatched) : IdOf(dispatched[i]) \in IDS
  /\ IsPrefix(dispatched, frames)
  /\ (QueueHasHeader(queue) /\ IdOf(queue) \notin IDS) =>
       ipc \in {"loop", "take", "bcast", "ret"}
  /\ (~AllValid(frames) /\ stream = <<>>) => ipc # "wait"
  /\ gaReason = "UnknownId" =>
       /\ QueueHasHeader(queue)
       /\ IdOf(queue) \notin IDS
       /\ IdOf(frames[Len(dispatched) + 1]) \notin IDS

\* a registered frame was dispatched, then the unregistered one aborted
C6_Witness ==
  /\ gaPc = "panicked"
  /\ gaReason = "UnknownId"
  /\ Len(frames) >= 2
  /\ Len(dispatched) = 1
  /\ frames[2] = FrameUnknown


(***************************************************************************)
(* UsbPrimitive: open, close and send on the Status cell                   *)
(* (usb_primitive/mod.rs:111-136, 188-197).                                *)
(***************************************************************************)
DEVICE == 80    \* 0x50
HOST   == 1     \* 0x01
STOP   == <<101, 4>>    \* [0x65, 0x04]

\* messages::utils::short
short(id, param_one, param_two) ==
  <<id[1], id[2], param_one, param_two, DEVICE, HOST>>

\* the commands of __stop and __estop for channel 1
SendFrames == {short(STOP, 1, 2), short(STOP, 1, 1)}

UsbOps == {"open", "close", "send"}

\* the outcomes of the USB calls inside open: the interface is claimed and
\* the serial port initialised; DeviceInfo::open or the claim returns an
\* io::Error; a control transfer or an endpoint fails
OpenOutcomes == {"ok", "io_error", "abort"}

InFlight == Cardinality({p \in Procs : upc[p] # "idle"})

\* a caller starts open(), close() or send(command)
UsbCall(p, o, f) ==
  /\ Alive
  /\ upc[p] = "idle"
  /\ Len(trace) + InFlight < MaxOps
  /\ (o = "send") = (f # <<>>)
  /\ upc' = [upc EXCEPT ![p] = "lock"]
  /\ uop' = [uop EXCEPT ![p] = o]
  /\ uarg' = [uarg EXCEPT ![p] = f]
  /\ ures' = [ures EXCEPT ![p] = "none"]
  /\ ustat' = [ustat EXCEPT ![p] = "none"]
  /\ UNCHANGED <<status, rwWriter, rwReaders, outgoing, nComm>>
  /\ UNCHANGED <<dispVars, callVars, inbVars, reasmVars, regVars, gaVars, histVars, lifeVars, pureVars, fnVars, xferVars, ctlVars, abortVars, portVars, taskVars>>

\* a write lock that does not wait for the readers to leave
WriteIgnoresReaders == rwWriter = NoOne

\* self.status.write().await can complete (mod.rs:112, 130)
CanWrite == rwWriter = NoOne /\ rwReaders = {}

\* self.status.read().await can complete (mod.rs:189)
CanRead == rwWriter = NoOne

\* let mut guard = self.status.write().await (mod.rs:112, 130)
WriteLock(p) ==
  /\ Alive
  /\ upc[p] = "lock"
  /\ uop[p] \in {"open", "close"}
  /\ CanWrite
  /\ rwWriter' = p
  /\ ustat' = [ustat EXCEPT ![p] = status]
  /\ upc' = [upc EXCEPT ![p] = "locked"]
  /\ UNCHANGED <<status, rwReaders, outgoing, nComm, uop, uarg, ures>>
  /\ UNCHANGED <<dispVars, callVars, inbVars, reasmVars, regVars, gaVars, histVars, lifeVars, pureVars, fnVars, xferVars, ctlVars, abortVars, portVars, taskVars>>

\* let guard = self.status.read().await (mod.rs:189); self.status.read().await
\* at the head of new_receiver's expression (mod.rs:180)
ReadLock(p) ==
  /\ Alive
  /\ upc[p] = "lock"
  /\ uop[p] \in {"send", "new_receiver"}
  /\ CanRead
  /\ rwReaders' = rwReaders \cup {p}
  /\ ustat' = [ustat EXCEPT ![p] = status]
  /\ upc' = [upc EXCEPT ![p] = "locked"]
  /\ UNCHANGED <<status, rwWriter, outgoing, nComm, uop, uarg, ures>>
  /\ UNCHANGED <<dispVars, callVars, inbVars, reasmVars, regVars, gaVars, histVars, lifeVars, pureVars, fnVars, xferVars, ctlVars, abortVars, portVars, taskVars>>

\* an assignment to the cell that leaves the status as it was
KeepStatus(s) == s

\* *guard = Status::Open(communicator) (mod.rs:117)
StatusOpen(s) == "Open"

\* *guard = Status::Closed(dispatcher) (mod.rs:133)
StatusClosed(s) == "Closed"

\* the record of a completed operation
Entry(p, res, st, og, nc) ==
  [p |-> p, op |-> uop[p], res |-> res, frame |-> uarg[p],
   before |-> status, after |-> st,
   enq |-> og = Append(outgoing, uarg[p]),
   changed |-> (st # status \/ og # outgoing \/ nc # nComm)]

\* the call returns: its guard is dropped and the result handed back
UsbReturn(p, res, st, og, nc) ==
  /\ status' = st
  /\ outgoing' = og
  /\ nComm' = nc
  /\ rwWriter' = IF rwWriter = p THEN NoOne ELSE rwWriter
  /\ rwReaders' = rwReaders \ {p}
  /\ upc' = [upc EXCEPT ![p] = "idle"]
  /\ ures' = [ures EXCEPT ![p] = res]
  /\ trace' = Append(trace, Entry(p, res, st, og, nc))
  /\ UNCHANGED <<uop, uarg, ustat>>

\* the body of open under the write lock (mod.rs:113-119): nothing if Open;
\* otherwise claim the interface (`?` returns the io::Error), build the
\* Communicator (serial_port::init and the endpoints abort on failure) and
\* store Status::Open
Open(p, outcome) ==
  /\ Alive
  /\ upc[p] = "locked"
  /\ uop[p] = "open"
  /\ IF status = "Closed" /\ outcome = "abort"
     THEN /\ GlobalAbortCall("ControlTransferFailed")
          /\ UNCHANGED <<usbVars, trace>>
     ELSE /\ UNCHANGED gaVars
          /\ IF status = "Closed"
             THEN IF outcome = "ok"
                  THEN UsbReturn(p, "Ok", StatusOpen(status), outgoing, nComm + 1)
                  ELSE UsbReturn(p, "IoError", status, outgoing, nComm)
             ELSE /\ outcome = "ok"
                  /\ UsbReturn(p, "Ok", status, outgoing, nComm)
  /\ UNCHANGED <<dispVars, callVars, inbVars, reasmVars, regVars>>
  /\ UNCHANGED <<handed, firstAfter, dispatched, frames, lifeVars, pureVars, fnVars, xferVars, ctlVars, abortVars, portVars, taskVars, bcast, obs, waited, snapshot, split>>

\* a close that stores a Dispatcher of its own making, with every slot None
FreshDispatcher(s) == [i \in IDS |-> 0]

\* Communicator::get_dispatcher (communicator.rs:160-162): a clone of the
\* Arc, which shares the map of slots (dispatcher.rs:72-75)
get_dispatcher(s) == s

\* the body of close under the write lock (mod.rs:131-135): an Open status
\* is replaced by Closed(dispatcher), with the Communicator's own Dispatcher;
\* the Communicator is dropped and with it the handle of the inbound task
Close(p) ==
  /\ Alive
  /\ upc[p] = "locked"
  /\ uop[p] = "close"
  /\ IF status = "Open"
     THEN /\ UsbReturn(p, "Ok", StatusClosed(status), outgoing, nComm - 1)
          /\ slot' = get_dispatcher(slot)
          /\ stale' = TRUE
     ELSE /\ UsbReturn(p, "Ok", status, outgoing, nComm)
          /\ UNCHANGED <<slot, stale>>
  /\ UNCHANGED <<mutex, chan, nextChan>>
  /\ UNCHANGED <<callVars, inbVars, reasmVars, regVars, gaVars>>
  /\ UNCHANGED <<handed, firstAfter, dispatched, frames, lifeVars, pureVars, fnVars, xferVars, ctlVars, abortVars, portVars, bcast, obs, waited, snapshot, split>>

\* the body of send under the read lock (mod.rs:190-196) with
\* Communicator::send (communicator.rs:152-157): submit the buffer to the OUT
\* endpoint if Open, Err(DeviceClosed) if Closed
Send(p) ==
  /\ Alive
  /\ upc[p] = "locked"
  /\ uop[p] = "send"
  /\ IF status = "Open"
     THEN UsbReturn(p, "Ok", status, Append(outgoing, uarg[p]), nComm)
     ELSE UsbReturn(p, "DeviceClosed", status, outgoing, nComm)
  /\ UNCHANGED <<dispVars, callVars, inbVars, reasmVars, regVars, gaVars>>
  /\ UNCHANGED <<handed, firstAfter, dispatched, frames, lifeVars, pureVars, fnVars, xferVars, ctlVars, abortVars, portVars, taskVars, bcast, obs, waited, snapshot, split>>

Usb(p) ==
  \/ \E o \in UsbOps, f \in SendFrames \cup {<<>>} : UsbCall(p, o, f)
  \/ WriteLock(p)
  \/ ReadLock(p)
  \/ \E outcome \in OpenOutcomes : Open(p, outcome)
  \/ Close(p)
  \/ Send(p)

\* UsbPrimitive::new leaves the device Closed (mod.rs:76-82); a caller may
\* already wait on the Dispatcher
InitUsb ==
  /\ InitRest
  /\ InitNoFunction
  /\ \E w \in {"none", "live"} : InitWaiter(w)
  /\ ipc = "wait"
  /\ stream = <<>>
  /\ frames = <<>>
  /\ pendingIn = 0
  /\ status = "Closed"
  /\ stale = TRUE
  /\ nComm = 0
  /\ registry = {"27000001"}
  /\ Constructed(registry)

NextUsb ==
  \/ \E p \in Procs : Usb(p)
  \/ GlobalAbort

SpecUsb == InitUsb /\ [][NextUsb]_vars

(***************************************************************************)
(* Claims checked under SpecUsb.                                           *)
(***************************************************************************)
\* C7: close always returns Ok and leaves the device Closed; on a Closed
\* device it changes nothing; an open that returns Ok leaves the device Open;
\* and the send that follows a successful open returns Ok and has put its
\* frame on the OUT endpoint.
C7_CloseIdempotentOpenRestores ==
  /\ trace # <<>> => status = trace[Len(trace)].after
  /\ \A i \in 1..Len(trace) :
       LET e == trace[i]
       IN /\ e.op = "close" => (e.res = "Ok" /\ e.after = "Closed")
          /\ (e.op = "close" /\ e.before = "Closed") => ~e.changed
          /\ (e.op = "open" /\ e.res = "Ok") => e.after = "Open"
          /\ (e.op = "send" /\ i > 1 /\ trace[i - 1].op = "open"
                /\ trace[i - 1].res = "Ok") => (e.res = "Ok" /\ e.enq)

\* close, a second close, a successful open and a send that returned Ok
C7_Witness ==
  /\ Len(trace) = 4
  /\ trace[1].op = "close" /\ trace[2].op = "close"
  /\ trace[3].op = "open" /\ trace[3].res = "Ok" /\ trace[3].before = "Closed"
  /\ trace[4].op = "send" /\ trace[4].res = "Ok"
  /\ outgoing = <<trace[4].frame>>

\* the frames on the OUT endpoint are those of the sends that returned Ok
RECURSIVE SentOk(_)
SentOk(t) ==
  IF t = <<>> THEN <<>>
  ELSE IF Head(t).op = "send" /\ Head(t).res = "Ok"
       THEN <<Head(t).frame>> \o SentOk(Tail(t))
       ELSE SentOk(Tail(t))

\* C8: a send returns Err(DeviceClosed) exactly if the status was Closed when
\* it took the read lock, and then leaves the OUT endpoint, the status and the
\* waiter slots as they were; if the status was Open it returns Ok and its
\* frame is appended to the OUT endpoint, once: the endpoint holds exactly the
\* frames of the sends that returned Ok, in order.
C8_SendClosedIffClosed ==
  /\ [](outgoing = SentOk(trace))
  /\ [][\A p \in Procs :
          (upc[p] = "locked" /\ uop[p] = "send" /\ upc'[p] = "idle") =>
            /\ ures'[p] \in {"Ok", "DeviceClosed"}
            /\ (ures'[p] = "DeviceClosed") <=> (ustat[p] = "Closed")
            /\ ustat[p] = "Closed" =>
                 (outgoing' = outgoing /\ status' = status /\ slot' = slot)
            /\ ustat[p] = "Open" =>
                 outgoing' = Append(outgoing, uarg[p])]_vars

\* one send was refused on the Closed device, a later one went out
C8_Witness ==
  \E i, j \in 1..Len(trace) :
    /\ i < j
    /\ trace[i].op = "send" /\ trace[i].res = "DeviceClosed"
    /\ trace[j].op = "send" /\ trace[j].res = "Ok"
    /\ outgoing = <<trace[j].frame>>


(***************************************************************************)
(* The device registry DEVICES and its clients (devices/utils.rs:58-122).  *)
(***************************************************************************)
RegOps == {"add_device", "remove_device", "abort_device", "drop_device"}

\* a thread starts a registry operation for a serial number
RegCall(o, sn) ==
  /\ Alive
  /\ rpc = "idle"
  /\ nRegOps < MaxRegOps
  /\ rpc' = o
  /\ rarg' = sn
  /\ nRegOps' = nRegOps + 1
  /\ UNCHANGED <<registry, regLock, drained, invoked, cbRunning>>
  /\ UNCHANGED <<dispVars, callVars, inbVars, reasmVars, usbVars, gaVars, histVars, lifeVars, pureVars, fnVars, xferVars, ctlVars, abortVars, portVars, taskVars>>

\* add_device (utils.rs:67-76): insert under the lock
add_device ==
  /\ rpc = "add_device"
  /\ regLock = NoOne
  /\ registry' = registry \cup {rarg}
  /\ rpc' = "idle"
  /\ UNCHANGED <<regLock, drained, invoked, cbRunning, rarg, nRegOps>>
  /\ UNCHANGED <<dispVars, callVars, inbVars, reasmVars, usbVars, gaVars, histVars, lifeVars, pureVars, fnVars, xferVars, ctlVars, abortVars, portVars, taskVars>>

\* remove_device (utils.rs:85-91): remove under the lock
remove_device ==
  /\ rpc = "remove_device"
  /\ regLock = NoOne
  /\ registry' = registry \ {rarg}
  /\ rpc' = "idle"
  /\ UNCHANGED <<regLock, drained, invoked, cbRunning, rarg, nRegOps>>
  /\ UNCHANGED <<dispVars, callVars, inbVars, reasmVars, usbVars, gaVars, histVars, lifeVars, pureVars, fnVars, xferVars, ctlVars, abortVars, portVars, taskVars>>

\* abort_device (utils.rs:102-111): look the callback up and call it; the
\* guard is a temporary of the `if let` and lives until the callback returns
abort_device ==
  /\ rpc = "abort_device"
  /\ regLock = NoOne
  /\ IF rarg \in registry
     THEN regLock' = "client" /\ rpc' = "callback"
     ELSE regLock' = NoOne /\ rpc' = "idle"
  /\ UNCHANGED <<registry, drained, invoked, cbRunning, rarg, nRegOps>>
  /\ UNCHANGED <<dispVars, callVars, inbVars, reasmVars, usbVars, gaVars, histVars, lifeVars, pureVars, fnVars, xferVars, ctlVars, abortVars, portVars, taskVars>>

\* drop_device (utils.rs:113-122): remove the callback and call it, under the
\* guard as in abort_device
drop_device ==
  /\ rpc = "drop_device"
  /\ regLock = NoOne
  /\ registry' = registry \ {rarg}
  /\ IF rarg \in registry
     THEN regLock' = "client" /\ rpc' = "callback"
     ELSE regLock' = NoOne /\ rpc' = "idle"
  /\ UNCHANGED <<drained, invoked, cbRunning, rarg, nRegOps>>
  /\ UNCHANGED <<dispVars, callVars, inbVars, reasmVars, usbVars, gaVars, histVars, lifeVars, pureVars, fnVars, xferVars, ctlVars, abortVars, portVars, taskVars>>

\* the callback called by abort_device or drop_device returns and the guard
\* is dropped
ClientCallbackReturn ==
  /\ rpc = "callback"
  /\ regLock' = NoOne
  /\ rpc' = "idle"
  /\ UNCHANGED <<registry, drained, invoked, cbRunning, rarg, nRegOps>>
  /\ UNCHANGED <<dispVars, callVars, inbVars, reasmVars, usbVars, gaVars, histVars, lifeVars, pureVars, fnVars, xferVars, ctlVars, abortVars, portVars, taskVars>>

\* the callback called by abort_device or drop_device itself meets a fault
\* and calls global_abort, on the thread that holds the guard: the callback
\* never returns, so the guard is never dropped
CallbackFault ==
  /\ Alive
  /\ rpc = "callback"
  /\ GlobalAbortCall("CallbackFault")
  /\ rpc' = "callback_in_abort"
  /\ UNCHANGED <<registry, regLock, drained, invoked, cbRunning, rarg, nRegOps>>
  /\ UNCHANGED <<dispVars, callVars, inbVars, reasmVars, usbVars, histVars, lifeVars, pureVars, fnVars, xferVars, ctlVars, abortVars, portVars, taskVars>>

\* some thread meets an unrecoverable fault and calls global_abort
Fault(reason) ==
  /\ Alive
  /\ GlobalAbortCall(reason)
  /\ UNCHANGED <<dispVars, callVars, inbVars, reasmVars, usbVars, regVars, histVars, lifeVars, pureVars, fnVars, xferVars, ctlVars, abortVars, portVars, taskVars>>

Registry ==
  \/ \E o \in RegOps, sn \in Serials : RegCall(o, sn)
  \/ add_device
  \/ remove_device
  \/ abort_device
  \/ drop_device
  \/ ClientCallbackReturn
  \/ CallbackFault

\* some devices have been constructed and registered
InitRegistry ==
  /\ InitCommon
  /\ ipc = "wait"
  /\ stream = <<>>
  /\ frames = <<>>
  /\ pendingIn = 0
  /\ status = "Closed"
  /\ stale = TRUE
  /\ nComm = 0
  /\ registry \in SUBSET Serials
  /\ Constructed(registry)

NextRegistry ==
  \/ Registry
  \/ \E reason \in {"UnknownId", "BroadcastFailed"} : Fault(reason)
  \/ GlobalAbort

SpecRegistry == InitRegistry /\ [][NextRegistry]_vars

(***************************************************************************)
(* Claims checked under SpecRegistry.                                      *)
(***************************************************************************)
\* C10: global_abort takes the registry lock and empties the registry; while
\* it calls the callbacks the registry stays empty; it calls only callbacks
\* that were registered when it took the lock, each at most once; it panics
\* only when each of them has been called exactly once and has returned; and
\* once called it never hands control back: called, draining, panicked is the
\* only way it moves.
C10_GlobalAbortDrainsInvokesPanics ==
  /\ [](gaPc = "draining" => (registry = {} /\ regLock = "global_abort"))
  /\ [](\A sn \in Serials :
          /\ invoked[sn] <= 1
          /\ invoked[sn] = 1 => sn \in snapshot)
  /\ [][(gaPc = "called" /\ gaPc' # "called") =>
          (gaPc' = "draining" /\ snapshot' = registry /\ registry' = {})]_vars
  /\ [][(gaPc = "draining" /\ gaPc' # "draining") =>
          /\ gaPc' = "panicked"
          /\ registry = {}
          /\ cbRunning = NoOne
          /\ \A sn \in Serials : invoked[sn] = IF sn \in snapshot THEN 1 ELSE 0]_vars
  /\ [][gaPc = "panicked" => gaPc' = "panicked"]_vars
  /\ [][gaPc = "none" => gaPc' \in {"none", "called"}]_vars

\* two devices were registered; both callbacks ran once, then the panic
C10_Witness ==
  /\ gaPc = "panicked"
  /\ snapshot = Serials
  /\ registry = {}
  /\ \A sn \in Serials : invoked[sn] = 1

\* C11: the registry lock is free whenever an abort callback runs, whether
\* abort_device, drop_device or global_abort called it.
C11_LockFreeDuringCallback ==
  (rpc \in {"callback", "callback_in_abort"} \/ cbRunning # NoOne) =>
    regLock = NoOne

\* C12: a control transfer of the serial-port initialisation that fails
\* during open() never aborts the process: open() returns an error instead.
C12_InitFailureIsReturned ==
  gaReason # "ControlTransferFailed"

\* C13: a transfer that completed with an error status is never resubmitted:
\* the inbound task does not reach its resubmit step with such a transfer.
C13_ErroredTransferAborts ==
  ~(ipc = "resubmit" /\ cstatus = "Err")


(***************************************************************************)
(* SpecFn: the device functions stop (functions/stop.rs) and home          *)
(* (functions/home.rs) run on one device.  Each obtains a receiver from    *)
(* the Dispatcher, sends its request through UsbPrimitive::send and then   *)
(* waits for the response; the inbound task dispatches whatever frames the *)
(* device emits.                                                           *)
(***************************************************************************)
\* the channel argument of the calls
CHANNEL == 1

\* const ID: [u8; 2] = [0x44, 0x04] in __home (home.rs:41): the one ID is
\* used for the receiver and for the transmitted frame
HOME_ID == <<68, 4>>

\* the frame a function transmits: short(STOP, channel, 0x02) in stop
\* (stop.rs:25), short(ID, channel, 0) in __home (home.rs:43)
Request(o) ==
  IF o = "receiver" THEN short(STOP, CHANNEL, 2) ELSE short(HOME_ID, CHANNEL, 0)

\* stop: let rx = device.inner().receiver(&STOPPED).await (stop.rs:23)
FnStop(p) ==
  /\ uop[p] = "none"
  /\ Call(p, "receiver", MOVE_STOPPED)

\* __home: let mut rx = device.inner().new_receiver(&ID).await (home.rs:42)
FnHome(p) ==
  /\ uop[p] = "none"
  /\ Call(p, "new_receiver", HOME_ID)

\* a function that submits its request while its receiver call is under way
FnSendEarly(p) ==
  /\ pc[p] \in {"get", "insert", "have"}
  /\ uop[p] = "none"
  /\ (op[p] = "receiver" /\ pc[p] = "have") => prov[p] = "New"
  /\ UsbCall(p, "send", Request(op[p]))

\* device.inner().send(command).await: stop sends only if rx.is_new()
\* (stop.rs:24-27), __home always (home.rs:44-47)
FnSend(p) ==
  /\ pc[p] = "have"
  /\ uop[p] = "none"
  /\ op[p] = "receiver" => prov[p] = "New"
  /\ UsbCall(p, "send", Request(op[p]))

\* the send has returned to the function
SendReturned(p) == uop[p] = "send" /\ upc[p] = "idle"

\* __home: send(..).await.unwrap_or_else(|err| abort(..)) (home.rs:44-48)
FnHomeSendFailed(p) ==
  /\ Alive
  /\ pc[p] = "have"
  /\ op[p] = "new_receiver"
  /\ SendReturned(p)
  /\ ures[p] = "DeviceClosed"
  /\ GlobalAbortCall("SendFailed")
  /\ UNCHANGED <<dispVars, callVars, inbVars, reasmVars, usbVars, regVars, histVars, lifeVars, pureVars, fnVars, xferVars, ctlVars, abortVars, portVars, taskVars>>

\* let _ = rx.receive().await (stop.rs:28): stop discards the result of send
\* and waits whatever it was; rx.recv_direct().await in __home (home.rs:49)
FnReceive(p) ==
  /\ \/ op[p] = "receiver" /\ prov[p] = "Existing"
     \/ op[p] = "receiver" /\ SendReturned(p)
     \/ op[p] = "new_receiver" /\ SendReturned(p) /\ ures[p] = "Ok"
  /\ Recv(p)

Fn(p) ==
  \/ FnStop(p)
  \/ FnHome(p)
  \/ Get(p)
  \/ Insert(p)
  \/ Existing(p)
  \/ AwaitPending(p)
  \/ WaitDone(p)
  \/ FnSend(p)
  \/ ReadLock(p)
  \/ Send(p)
  \/ FnHomeSendFailed(p)
  \/ FnReceive(p)

\* the device is Open or Closed when the functions are called
InitFn ==
  /\ InitCommon
  /\ ipc = "loop"
  /\ stream = <<>>
  /\ frames = <<>>
  /\ \E s \in {"Open", "Closed"} :
       /\ status = s
       /\ stale = (s = "Closed")
       /\ nComm = IF s = "Open" THEN 1 ELSE 0
       /\ pendingIn = IF s = "Open" THEN N_TRANSFERS ELSE 0
  /\ registry = {"27000001"}
  /\ Constructed(registry)

\* the inbound task runs only while the device is Open: the Communicator,
\* which owns it, exists only in Status::Open (mod.rs:113-119)
DeviceFrame(f) ==
  /\ status = "Open"
  /\ stale = FALSE
  /\ InboundFrame(f)

NextFn ==
  \/ \E p \in Procs : Fn(p)
  \/ \E f \in SpecFrames : DeviceFrame(f)
  \/ Dispatch
  \/ GlobalAbort

SpecFn == InitFn /\ [][NextFn]_vars

(***************************************************************************)
(* Claims checked under SpecFn.                                            *)
(***************************************************************************)
\* C14: when a function that obtained a New receiver then fails to send
\* (send returned DeviceClosed), the waiter slot of its response ID is
\* cleaned up: it does not stay occupied while the function waits for a
\* response to a request that was never transmitted.
C14_FailedSendCleansSlot ==
  \A p \in Procs :
    (op[p] = "receiver" /\ prov[p] = "New" /\ SendReturned(p)
       /\ ures[p] = "DeviceClosed")
      => slot[MOVE_STOPPED] = 0


\* C20: home(channel) on an Open device transmits the MOT_MOVE_HOME request
\* [0x43, 0x04, channel, 0x00, 0x50, 0x01]: every frame a home call has
\* handed to the OUT endpoint is that frame.
C20_HomeTransmitsMoveHome ==
  \A p \in Procs :
    (op[p] = "new_receiver" /\ SendReturned(p) /\ ures[p] = "Ok")
      => uarg[p] = <<67, 4, CHANNEL, 0, 80, 1>>


(***************************************************************************)
(* Pure functions: check_serial_number (traits/check_serial_number.rs),    *)
(* get_device (devices/utils.rs) and the frame builders short and long     *)
(* (messages/utils.rs).  A string is the sequence of its Unicode scalar    *)
(* values.                                                                 *)
(***************************************************************************)
\* the characters the serial numbers under test are made of:
\* '0', '1', '2', '7', 'a', and U+00B2 SUPERSCRIPT TWO
Ch0    == 48
Ch1    == 49
Ch2    == 50
Ch7    == 55
ChA    == 97
ChSup2 == 178

\* the number of bytes of a char in UTF-8
len_utf8(c) ==
  IF c < 128 THEN 1 ELSE IF c < 2048 THEN 2 ELSE IF c < 65536 THEN 3 ELSE 4

\* String::len: the length of the string in bytes, not in chars
RECURSIVE str_len(_)
str_len(s) == IF s = <<>> THEN 0 ELSE len_utf8(Head(s)) + str_len(Tail(s))

\* char::is_numeric: the Unicode general categories Nd, Nl and No; of the
\* characters under test the ASCII digits and the superscript two
is_numeric(c) == c \in 48..57 \/ c = ChSup2

\* a test that takes every character for numeric
AnyCharNumeric(c) == TRUE

\* c.is_numeric() as check_serial_number calls it (check_serial_number.rs:47)
CharIsNumeric(c) == is_numeric(c)

\* str::starts_with
starts_with(s, prefix) ==
  /\ Len(s) >= Len(prefix)
  /\ SubSeq(s, 1, Len(prefix)) = prefix

\* const SERIAL_NUMBER_PREFIX: &'static str = "27" (kdc101.rs:221)
SERIAL_NUMBER_PREFIX == <<Ch2, Ch7>>

\* CheckSerialNumber::check_serial_number (check_serial_number.rs:44-53)
check_serial_number(serial_number) ==
  IF /\ starts_with(serial_number, SERIAL_NUMBER_PREFIX)
     /\ str_len(serial_number) = 8
     /\ \A i \in 1..Len(serial_number) : CharIsNumeric(serial_number[i])
  THEN "Ok"
  ELSE "Invalid"

\* a device of another vendor, and a device that reports no serial number
OTHER_VENDOR == 1118
NoSerial     == "none"

\* a vendor filter that lets every device through
AnyVendor(dev) == TRUE

\* dev.vendor_id() == 0x0403 (utils.rs:162)
IsThorlabs(dev) == dev.vendor = FTDI

\* get_devices (utils.rs:159-163), over the list list_devices() returned
get_devices(list) == SelectSeq(list, IsThorlabs)

\* get_device (utils.rs:170-178): the first two matches decide the result
get_device(list, serial_number) ==
  LET Matches(dev) == dev.serial # NoSerial /\ dev.serial = serial_number
      devices == SelectSeq(get_devices(list), Matches)
  IN IF Len(devices) = 0 THEN [res |-> "NotFound", device |-> <<>>]
     ELSE IF Len(devices) = 1 THEN [res |-> "Ok", device |-> devices[1]]
     ELSE [res |-> "Multiple", device |-> <<>>]

\* u16::to_le_bytes
to_le_bytes(n) == <<n % 256, n \div 256>>

\* data.len() as u16: the cast keeps the low 16 bits
as_u16(n) == n % 65536

\* a cast that keeps every bit
NoTruncate(n) == n

\* a cast that keeps the low byte only
as_u8(n) == n % 256

\* the length field of long (messages/utils.rs:64)
LengthField(n) == as_u16(n)

\* DEVICE | 0x80
DEVICE_LONG == DEVICE + 128

\* messages::utils::long (messages/utils.rs:61-69)
long(id, data) ==
  <<id[1], id[2]>> \o to_le_bytes(LengthField(Len(data)))
    \o <<DEVICE_LONG, HOST>> \o data


(***************************************************************************)
(* SpecPure: one of the pure functions is called on an input drawn from a  *)
(* bounded set.                                                            *)
(***************************************************************************)
MaxBody    == 6    \* characters after the first two of a serial number
MaxBus     == 2    \* devices list_devices() returns
MaxPayload == 2    \* bytes of a short payload

\* the sequences over S of length at most n
SeqsUpTo(S, n) == UNION {[1..k -> S] : k \in 0..n}

\* serial numbers: a beginning, right or wrong, and up to MaxBody characters
SerialInputs ==
  {p \o b : p \in {<<>>, <<Ch2>>, <<Ch2, Ch7>>, <<Ch2, Ch1>>},
            b \in SeqsUpTo({Ch0, ChA, ChSup2}, MaxBody)}

\* the devices a bus can hold
DeviceKinds == [vendor : {FTDI, OTHER_VENDOR}, serial : Serials \cup {NoSerial}]

BusLists == SeqsUpTo(DeviceKinds, MaxBus)

\* a payload one byte too long for its length to fit in 16 bits
BigPayload == [i \in 1..65536 |-> 0]

\* a payload whose length needs the second byte of the length field
LongPayload == [i \in 1..256 |-> 0]

Payloads == SeqsUpTo({0, 255}, MaxPayload) \cup {BigPayload, LongPayload}

\* MOT_MOVE_ABSOLUTE (move_absolute.rs:36)
MOVE == <<83, 4>>    \* [0x53, 0x04]

\* the largest e with 2^e <= n, for n >= 1
RECURSIVE ilog2(_)
ilog2(n) == IF n < 2 THEN 0 ELSE 1 + ilog2(n \div 2)

\* the IEEE-754 binary32 bit pattern of a non-negative whole number below
\* 2^24 (sign 0, biased exponent, 23 fraction bits)
f32_bits(v) ==
  IF v = 0 THEN 0
  ELSE LET e == ilog2(v)
       IN (e + 127) * 2^23 + (v - 2^e) * 2^(23 - e)

\* the bytes of a 32-bit pattern, least significant first
le_bytes32(n) ==
  <<n % 256, (n \div 256) % 256, (n \div 65536) % 256, (n \div 16777216) % 256>>

\* f32::to_le_bytes (move_absolute.rs:51)
f32_to_le_bytes(v) == le_bytes32(f32_bits(v))

\* command.extend(position.to_le_bytes()) with position: f32
\* (move_absolute.rs:41, 51)
PositionBytes(v) == f32_to_le_bytes(v)

\* long(MOVE, 12) (move_absolute.rs:48): the call passes the length of the
\* whole frame, as pack_long_message(id, length) takes it
\* (traits/thorlabs_device.rs:62-69): id, length - 6 little-endian, the
\* destination with its top bit set, the source
long_with_length(id, len) ==
  <<id[1], id[2]>> \o to_le_bytes(as_u16(len - 6)) \o <<DEVICE_LONG, HOST>>

\* the command __move_absolute builds (move_absolute.rs:48-51):
\* long(MOVE, 12), push(0), push(channel), extend(position.to_le_bytes())
move_absolute_command(channel, position) ==
  long_with_length(MOVE, 12) \o <<0>> \o <<channel>> \o PositionBytes(position)

ByteInputs == {0, 1, 255}

FnInputs(f) ==
  CASE f = "check_serial_number" -> SerialInputs
    [] f = "get_device" -> [list : BusLists, serial_number : Serials]
    [] f = "short" -> [id : {STOP, HOME_ID}, param_one : ByteInputs, param_two : ByteInputs]
    [] f = "long" -> [id : {STOP, HOME_ID}, data : Payloads]
    [] f = "move_absolute" -> [channel : {1, 2}, position : {0, 1, 3, 65536}]

PureFns == {"check_serial_number", "get_device", "short", "long", "move_absolute"}

Returns(v) ==
  /\ ~fout.done
  /\ fout' = [done |-> TRUE, val |-> v]
  /\ UNCHANGED <<fname, fin, lifeVars, fnVars, xferVars, ctlVars, abortVars, portVars, taskVars>>
  /\ UNCHANGED <<dispVars, callVars, inbVars, reasmVars, usbVars, regVars, gaVars, histVars>>

CallCheckSerialNumber ==
  /\ fname = "check_serial_number"
  /\ Returns(check_serial_number(fin))

CallGetDevice ==
  /\ fname = "get_device"
  /\ Returns(get_device(fin.list, fin.serial_number))

CallShort ==
  /\ fname = "short"
  /\ Returns(short(fin.id, fin.param_one, fin.param_two))

CallLong ==
  /\ fname = "long"
  /\ Returns(long(fin.id, fin.data))

InitPure ==
  /\ InitCallers
  /\ InitRest
  /\ transfers = <<>>
  /\ ipc = "wait"
  /\ stream = <<>>
  /\ frames = <<>>
  /\ pendingIn = 0
  /\ status = "Closed"
  /\ stale = TRUE
  /\ nComm = 0
  /\ registry = {}
  /\ Constructed(registry)
  /\ fname \in PureFns
  /\ fin \in FnInputs(fname)
  /\ fout = NoResult
  /\ enable = [p \in Procs |-> TRUE]

CallMoveAbsoluteCommand ==
  /\ fname = "move_absolute"
  /\ Returns(move_absolute_command(fin.channel, fin.position))

NextPure ==
  \/ CallCheckSerialNumber
  \/ CallGetDevice
  \/ CallShort
  \/ CallLong
  \/ CallMoveAbsoluteCommand

SpecPure == InitPure /\ [][NextPure]_vars

(***************************************************************************)
(* Claims checked under SpecPure.                                          *)
(***************************************************************************)
\* C17: check_serial_number(s) returns Ok if and only if s is exactly 8
\* characters long, every character is a decimal digit and s begins with
\* "27"; in every other case it returns Err(Invalid).
C17_OkIffEightDigitsWithPrefix ==
  (fname = "check_serial_number" /\ fout.done) =>
    ((fout.val = "Ok") <=>
       (/\ Len(fin) = 8
        /\ \A i \in 1..Len(fin) : fin[i] \in 48..57
        /\ starts_with(fin, <<50, 55>>)))


\* the positions of the list whose device has the Thorlabs vendor ID and
\* reports the serial number asked for
ThorlabsMatches ==
  {i \in 1..Len(fin.list) :
     fin.list[i].vendor = 1027 /\ fin.list[i].serial = fin.serial_number}

\* C18: get_device(serial) returns Err(NotFound) when no connected device
\* with vendor ID 0x0403 reports that serial number, Ok(device) with that
\* device when exactly one does, and Err(Multiple) when two or more do;
\* devices of other vendors never count.
C18_GetDeviceByMatchCount ==
  (fname = "get_device" /\ fout.done) =>
    LET n == Cardinality(ThorlabsMatches)
    IN /\ n = 0 => fout.val.res = "NotFound"
       /\ n = 1 => /\ fout.val.res = "Ok"
                   /\ \E i \in ThorlabsMatches : fout.val.device = fin.list[i]
       /\ n >= 2 => fout.val.res = "Multiple"

\* get_device has returned the one Thorlabs device with the serial number
\* although a device of another vendor reports the same serial number
C18_Witness ==
  /\ fname = "get_device"
  /\ fout.done
  /\ fout.val.res = "Ok"
  /\ \E i \in 1..Len(fin.list) :
       fin.list[i].vendor # 1027 /\ fin.list[i].serial = fin.serial_number


\* C19 as stated: short always yields [id[0], id[1], p1, p2, 0x50, 0x01];
\* long with N payload bytes yields 6 + N bytes: the id, N little-endian in
\* bytes 2 and 3, 0xD0, 0x01, then the payload unchanged.
C19_LongCarriesItsLength ==
  /\ (fname = "short" /\ fout.done) =>
       fout.val = <<fin.id[1], fin.id[2], fin.param_one, fin.param_two, 80, 1>>
  /\ (fname = "long" /\ fout.done) =>
       LET N == Len(fin.data)
       IN /\ Len(fout.val) = 6 + N
          /\ fout.val[1] = fin.id[1] /\ fout.val[2] = fin.id[2]
          /\ fout.val[3] \in 0..255 /\ fout.val[4] \in 0..255
          /\ fout.val[3] + 256 * fout.val[4] = N
          /\ fout.val[5] = 208 /\ fout.val[6] = 1
          /\ SubSeq(fout.val, 7, 6 + N) = fin.data

\* C19: short always yields [id[0], id[1], p1, p2, 0x50, 0x01]; long with N
\* payload bytes yields 6 + N bytes: the id, the low 16 bits of N
\* little-endian in bytes 2 and 3 (N itself when N < 65536), 0xD0, 0x01,
\* then the payload unchanged.
C19_LongCarriesLengthMod65536 ==
  /\ (fname = "short" /\ fout.done) =>
       fout.val = <<fin.id[1], fin.id[2], fin.param_one, fin.param_two, 80, 1>>
  /\ (fname = "long" /\ fout.done) =>
       LET N == Len(fin.data)
       IN /\ Len(fout.val) = 6 + N
          /\ fout.val[1] = fin.id[1] /\ fout.val[2] = fin.id[2]
          /\ fout.val[3] \in 0..255 /\ fout.val[4] \in 0..255
          /\ fout.val[3] + 256 * fout.val[4] = N % 65536
          /\ N < 65536 => fout.val[3] + 256 * fout.val[4] = N
          /\ fout.val[5] = 208 /\ fout.val[6] = 1
          /\ SubSeq(fout.val, 7, 6 + N) = fin.data

\* long has built the frame of a payload of two bytes
C19_Witness ==
  /\ fname = "long"
  /\ fout.done
  /\ fin.data = <<0, 255>>
  /\ fout.val = <<fin.id[1], fin.id[2], 2, 0, 208, 1, 0, 255>>


(***************************************************************************)
(* SpecLife: device objects are constructed with KDC101::new               *)
(* (kdc101.rs:39-52), opened, closed and dropped (usb_primitive/mod.rs:    *)
(* 243-250).  The Status cell is that of the device "27000001".            *)
(***************************************************************************)
\* the serial numbers handed to KDC101::new: two controllers, a serial of
\* another device type, one that is too short, and "27" followed by three
\* U+00B2
NewInputs == Serials \cup {"21000001", "2700001", "27(U+00B2)(U+00B2)(U+00B2)"}

\* the characters of these strings
Text(sn) ==
  CASE sn = "27000001" -> <<Ch2, Ch7, Ch0, Ch0, Ch0, Ch0, Ch0, Ch1>>
    [] sn = "27000002" -> <<Ch2, Ch7, Ch0, Ch0, Ch0, Ch0, Ch0, Ch2>>
    [] sn = "21000001" -> <<Ch2, Ch1, Ch0, Ch0, Ch0, Ch0, Ch0, Ch1>>
    [] sn = "2700001" -> <<Ch2, Ch7, Ch0, Ch0, Ch0, Ch0, Ch1>>
    [] OTHER -> <<Ch2, Ch7, ChSup2, ChSup2, ChSup2>>

\* the device whose Status cell the model carries
Opened == "27000001"

\* a statement that polls the future of add_device to completion: the
\* closure, and the Arc clone it owns, is stored in DEVICES
PolledFuture(reg, sn) == reg \cup {sn}

\* add_device(sn, f); (kdc101.rs:50): the future of the async fn
\* (utils.rs:67-76) is dropped unpolled, and the closure f with it
DroppedFuture(reg, sn) == reg

\* KDC101::new (kdc101.rs:39-52): check_serial_number(&sn)?, then
\* UsbPrimitive::new(&sn, &IDS)? which is get_device(sn)? (mod.rs:76-82),
\* then `add_device(sn, f);`.  add_device is an async fn (utils.rs:67): the
\* call builds a future, and the statement drops it without polling it, so
\* its body, the insert into DEVICES, never runs.
KDC101_new(sn) ==
  /\ Alive
  /\ nRegOps < MaxRegOps
  /\ nRegOps' = nRegOps + 1
  /\ sn \in Serials => life[sn] # "live"
  /\ IF check_serial_number(Text(sn)) # "Ok"
     THEN /\ newRes' = [sn |-> sn, res |-> "Invalid", enumerated |-> FALSE]
          /\ UNCHANGED <<life, registry>>
     ELSE LET found == get_device(bus, sn)
          IN /\ newRes' = [sn |-> sn, res |-> found.res, enumerated |-> TRUE]
             /\ life' = IF found.res = "Ok"
                        THEN [life EXCEPT ![sn] = "live"]
                        ELSE life
             /\ registry' = IF found.res = "Ok"
                            THEN DroppedFuture(registry, sn)
                            ELSE registry
  /\ UNCHANGED <<regLock, drained, invoked, cbRunning, rpc, rarg>>
  /\ UNCHANGED <<manager, bus, dropRes>>
  /\ UNCHANGED <<dispVars, callVars, inbVars, reasmVars, usbVars, gaVars, histVars, pureVars, fnVars, xferVars, ctlVars, abortVars, portVars, taskVars>>

\* The last facade handle is dropped.  KDC101 holds inner: Arc<UsbPrimitive>
\* (kdc101.rs:46-48); the closure of new owns one more clone, so the
\* primitive is dropped here only if no stored closure is left.  Drop for
\* UsbPrimitive (mod.rs:243-250): Self::abort(), whose body is
\* empty (mod.rs:153-155), then device_manager().await.remove(serial), which
\* removes the key from DEVICE_MANAGER (device_manager.rs:77-79), a map other
\* than DEVICES; then the fields are dropped, and with an Open status its
\* Communicator
Drop(sn) ==
  /\ Alive
  /\ life[sn] = "live"
  /\ \A p \in Procs : upc[p] = "idle"
  /\ IF sn \in registry
     THEN /\ life' = [life EXCEPT ![sn] = "leaked"]
          /\ UNCHANGED <<manager, dropRes, status, nComm, stale>>
     ELSE /\ manager' = manager \ {sn}
          /\ life' = [life EXCEPT ![sn] = "dropped"]
          /\ dropRes' = [sn |-> sn, open |-> (sn = Opened /\ status = "Open")]
          /\ IF sn = Opened
             THEN /\ status' = "Closed"
                  /\ nComm' = 0
                  /\ stale' = TRUE
             ELSE UNCHANGED <<status, nComm, stale>>
  /\ UNCHANGED <<rwWriter, rwReaders, outgoing, upc, uop, uarg, ures, ustat>>
  /\ UNCHANGED <<bus, newRes>>
  /\ UNCHANGED <<dispVars, callVars, inbVars, reasmVars, regVars, gaVars, histVars, pureVars, fnVars, xferVars, ctlVars, abortVars, portVars>>

\* open and close on the constructed device
LifeUsb(p) ==
  /\ life[Opened] = "live"
  /\ \/ \E o \in {"open", "close"} : UsbCall(p, o, <<>>)
     \/ WriteLock(p)
     \/ \E outcome \in {"ok", "io_error"} : Open(p, outcome)
     \/ Close(p)

\* nothing has been constructed; some devices are plugged in
InitLife ==
  /\ InitCommon
  /\ ipc = "wait"
  /\ stream = <<>>
  /\ frames = <<>>
  /\ pendingIn = 0
  /\ status = "Closed"
  /\ stale = TRUE
  /\ nComm = 0
  /\ registry = {}
  /\ life = [sn \in Serials |-> "none"]
  /\ bus \in BusLists

NextLife ==
  \/ \E sn \in NewInputs : KDC101_new(sn)
  \/ \E sn \in Serials : Drop(sn)
  \/ LifeUsb("p1")

SpecLife == InitLife /\ [][NextLife]_vars

(***************************************************************************)
(* Claims checked under SpecLife.                                          *)
(***************************************************************************)
\* C15: when a UsbPrimitive is dropped, a stop command is first issued to
\* the device: after the drop of an Open device a frame with the STOP ID has
\* been put on the OUT endpoint.
C15_DropIssuesStop ==
  (dropRes.sn # "none" /\ dropRes.open) =>
    \E i \in 1..Len(outgoing) : IdOf(outgoing[i]) = STOP

\* C16: after KDC101::new(serial) has returned Ok, the global registry maps
\* that serial number to the device's abort callback for as long as the
\* device lives.
C16_NewRegistersCallback ==
  \A sn \in Serials :
    (newRes.sn = sn /\ newRes.res = "Ok" /\ life[sn] = "live") =>
      sn \in registry


\* C21: move_absolute(channel 1, position 0x00010000) builds exactly the 12
\* bytes [0x53,0x04,0x06,0x00,0xD0,0x01,0x01,0x00,0x00,0x00,0x01,0x00]: the
\* header with payload length 6, the channel as a little-endian u16, the
\* position as a little-endian 32-bit count.
C21_MoveAbsoluteFrame ==
  (fname = "move_absolute" /\ fout.done /\ fin.channel = 1 /\ fin.position = 65536)
    => fout.val = <<83, 4, 6, 0, 208, 1, 1, 0, 0, 0, 1, 0>>


(***************************************************************************)
(* SpecStatus: callers of get_u_status_update (functions/status_update.rs) *)
(* on an Open device that answers each request it receives.                *)
(***************************************************************************)
MaxFnCalls == 3    \* calls on the Dispatcher the functions make in all

REQ_USTATUSUPDATE == <<144, 4>>    \* [0x90, 0x04]

\* GET_USTATUSUPDATE responses for channel 1, with two different payloads,
\* and one for channel 2
FrameStatusA   == <<145, 4, 14, 0, 129, 80,
                    1, 0, 16, 32, 48, 64, 5, 6, 0, 0, 7, 8, 9, 10>>
FrameStatusB   == <<145, 4, 14, 0, 129, 80,
                    1, 0, 17, 33, 49, 65, 5, 6, 0, 0, 7, 8, 9, 10>>
FrameStatusCh2 == <<145, 4, 14, 0, 129, 80,
                    2, 0, 16, 32, 48, 64, 5, 6, 0, 0, 7, 8, 9, 10>>

StatusFrames == {FrameStatusA, FrameStatusB, FrameStatusCh2}

\* a caller that transmits whatever the provenance of its receiver
AlwaysTransmits(pv) == TRUE

\* if rx.is_new() (status_update.rs:47)
IsNew(pv) == pv = "New"

\* let rx = device.inner().receiver(&GET_USTATUSUPDATE).await
\* (status_update.rs:46); a caller calls the function once
FnStatus(p) ==
  /\ out[p] = "none"
  /\ uop[p] = "none"
  /\ CallUpTo(p, "receiver", GET_USTATUSUPDATE, MaxFnCalls)

\* send(short(REQ_USTATUSUPDATE, channel, 0)) if the receiver is new
\* (status_update.rs:47-50)
FnStatusSend(p) ==
  /\ pc[p] = "have"
  /\ uop[p] = "none"
  /\ IsNew(prov[p])
  /\ UsbCall(p, "send", short(REQ_USTATUSUPDATE, CHANNEL, 0))

\* the caller may go on to rx.receive(): it did not have to send, or its
\* send has returned
MayReceive(p) ==
  /\ pc[p] = "have"
  /\ upc[p] = "idle"
  /\ ~IsNew(prov[p]) \/ uop[p] = "send"

\* rx.receive() returns a response for the channel: break response
\* (status_update.rs:51-54)
FnStatusDone(p) ==
  /\ MayReceive(p)
  /\ HasMessage(rx[p])
  /\ chan[rx[p].c].sent[1][7] = CHANNEL
  /\ Recv(p)

\* rx.receive() returns a response for another channel: the loop starts
\* again with a call of receiver (status_update.rs:45-46, 52)
FnStatusAgain(p) ==
  /\ Alive
  /\ MayReceive(p)
  /\ HasMessage(rx[p])
  /\ chan[rx[p].c].sent[1][7] # CHANNEL
  /\ nCalls < MaxFnCalls
  /\ nCalls' = nCalls + 1
  /\ chan' = [chan EXCEPT ![rx[p].c] = DropReceiver(@, FALSE)]
  /\ rx' = [rx EXCEPT ![p] = NoRx]
  /\ prov' = [prov EXCEPT ![p] = "none"]
  /\ seen' = [seen EXCEPT ![p] = 0]
  /\ pc' = [pc EXCEPT ![p] = "get"]
  /\ uop' = [uop EXCEPT ![p] = "none"]
  /\ UNCHANGED <<slot, mutex, nextChan>>
  /\ UNCHANGED <<op, cid, held, out>>
  /\ UNCHANGED <<ipc, msg, taken, nDispatch>>
  /\ UNCHANGED <<status, rwWriter, rwReaders, outgoing, nComm, upc, uarg, ures, ustat>>
  /\ UNCHANGED <<reasmVars, regVars, gaVars, histVars, lifeVars, pureVars, fnVars, xferVars, ctlVars, abortVars, portVars, taskVars>>

\* the device answers a request it has received and not yet answered
DeviceAnswers(f) ==
  /\ nDispatch < Len(outgoing)
  /\ DeviceFrame(f)

FnS(p) ==
  \/ FnStatus(p)
  \/ Get(p)
  \/ Insert(p)
  \/ Existing(p)
  \/ FnStatusSend(p)
  \/ ReadLock(p)
  \/ Send(p)
  \/ FnStatusDone(p)
  \/ FnStatusAgain(p)

\* the device is Open and nothing has been called
InitStatus ==
  /\ InitCallersOf(MaxFnCalls)
  /\ InitRestOf(MaxFnCalls)
  /\ InitNoFunction
  /\ ipc = "loop"
  /\ stream = <<>>
  /\ frames = <<>>
  /\ pendingIn = N_TRANSFERS
  /\ status = "Open"
  /\ stale = FALSE
  /\ nComm = 1
  /\ registry = {"27000001"}
  /\ Constructed(registry)

NextStatus ==
  \/ \E p \in Procs : FnS(p)
  \/ \E f \in StatusFrames : DeviceAnswers(f)
  \/ Dispatch

SpecStatus == InitStatus /\ [][NextStatus]_vars


(***************************************************************************)
(* Claims checked under SpecStatus.                                        *)
(***************************************************************************)
\* the calls of both callers are in progress
BothInProgress == \A p \in Procs : pc[p] # "idle"

\* C23 as stated: two concurrent calls to get_u_status_update put exactly
\* one REQ_USTATUSUPDATE frame on the wire: while both calls are in progress
\* no second request has been transmitted.
C23_OneRequestForConcurrentCalls ==
  BothInProgress => Len(outgoing) <= 1

\* C23: a caller whose receiver is Existing never transmits; a caller whose
\* receiver is New transmits one request for it, so there are never more
\* requests on the wire than New receivers; callers that joined the same
\* channel receive the same response payload; and two calls that both
\* completed on the one channel ever created, the second having got its
\* receiver before dispatch took the response, put exactly one request on the
\* wire.
C23_OneRequestPerNewReceiver ==
  /\ \A p \in Procs :
       (pc[p] = "have" /\ prov[p] = "Existing") => (uop[p] = "none" /\ upc[p] = "idle")
  /\ Len(outgoing) <= nextChan - 1
  /\ \A i \in 1..Len(outgoing) : outgoing[i] = <<144, 4, CHANNEL, 0, 80, 1>>
  /\ \A p, q \in Procs :
       (obs[p].c # 0 /\ obs[p].c = obs[q].c) => obs[p].frame = obs[q].frame
  /\ (\A p \in Procs : out[p] = "Ok" /\ obs[p].c = 1) =>
       (nextChan = 2 => Len(outgoing) = 1)

\* both calls have returned the same response, which answered the single
\* request on the wire
C23_Witness ==
  /\ \A p \in Procs : out[p] = "Ok" /\ obs[p].c = 1
  /\ obs["p1"].frame = obs["p2"].frame
  /\ nextChan = 2
  /\ Len(outgoing) = 1


(***************************************************************************)
(* SpecEnable: callers of set_channel_enable_state                         *)
(* (functions/channel_enable_state.rs) on an Open device.  The device may  *)
(* send GET_CHANENABLESTATE frames of its own accord.                      *)
(***************************************************************************)
SET == <<16, 2>>    \* [0x10, 0x02]
REQ == <<17, 2>>    \* [0x11, 0x02]

\* GET_CHANENABLESTATE for channel 1, disabled
FrameChanOff == <<18, 2, 1, 2, 1, 80>>

EnableFrames == {FrameChan, FrameChanOff}

\* let enable_byte: u8 = if enable { 0x01 } else { 0x02 }
\* (channel_enable_state.rs:80)
enable_byte(e) == IF e THEN 1 ELSE 2

\* short(SET, channel, 0) (channel_enable_state.rs:83): the third argument
\* is the literal 0, not enable_byte
SetCommand == short(SET, CHANNEL, 0)

\* short(REQ, channel, 0) (channel_enable_state.rs:48)
ReqCommand == short(REQ, CHANNEL, 0)

\* match device.inner().receiver(&GET).await (channel_enable_state.rs:81)
FnEnable(p) ==
  /\ out[p] = "none"
  /\ uop[p] = "none"
  /\ outer[p] = 0
  /\ CallUpTo(p, "receiver", GET_CHANENABLESTATE, MaxFnCalls)

\* Provenance::New(_): send(short(SET, channel, 0)) (channel_enable_state.rs:
\* 82-84); the result of send is discarded
FnEnableSendSet(p) ==
  /\ pc[p] = "have"
  /\ op[p] = "receiver"
  /\ prov[p] = "New"
  /\ uop[p] = "none"
  /\ UsbCall(p, "send", SetCommand)

\* __req_channel_enable_state(device, channel) is called from the New arm
\* (channel_enable_state.rs:85) and starts with new_receiver(&GET) (line 46).
\* The scrutinee of the enclosing match is a temporary that `_` does not
\* move out of: the New receiver lives until the match ends.
FnReq(p) ==
  /\ Alive
  /\ pc[p] = "have"
  /\ op[p] = "receiver"
  /\ prov[p] = "New"
  /\ SendReturned(p)
  /\ nCalls < MaxFnCalls
  /\ nCalls' = nCalls + 1
  /\ outer' = [outer EXCEPT ![p] = rx[p].c]
  /\ rx' = [rx EXCEPT ![p] = NoRx]
  /\ op' = [op EXCEPT ![p] = "new_receiver"]
  /\ prov' = [prov EXCEPT ![p] = "none"]
  /\ pc' = [pc EXCEPT ![p] = "get"]
  /\ UNCHANGED <<cid, seen, held, out, enable>>
  /\ UNCHANGED <<ipc, msg, taken, nDispatch>>
  /\ UNCHANGED <<dispVars, reasmVars, usbVars, regVars, gaVars, histVars, lifeVars, pureVars, xferVars, ctlVars, abortVars, portVars, taskVars>>

\* __req: send(short(REQ, channel, 0)) once new_receiver has returned
\* (channel_enable_state.rs:47-48)
FnReqSend(p) ==
  /\ pc[p] = "have"
  /\ op[p] = "new_receiver"
  /\ uarg[p] = SetCommand
  /\ UsbCall(p, "send", ReqCommand)

\* the caller drops the receivers it holds and returns
ReturnFrom(p, resp) ==
  /\ chan' = LET c1 == [chan EXCEPT ![rx[p].c] = DropReceiver(@, FALSE)]
             IN IF outer[p] = 0 THEN c1
                ELSE [c1 EXCEPT ![outer[p]] = DropReceiver(@, FALSE)]
  /\ obs' = [obs EXCEPT ![p] = [c |-> rx[p].c, frame |-> resp]]
  /\ rx' = [rx EXCEPT ![p] = NoRx]
  /\ outer' = [outer EXCEPT ![p] = 0]
  /\ out' = [out EXCEPT ![p] = "Ok"]
  /\ pc' = [pc EXCEPT ![p] = "idle"]
  /\ op' = [op EXCEPT ![p] = "none"]
  /\ prov' = [prov EXCEPT ![p] = "none"]
  /\ seen' = [seen EXCEPT ![p] = 0]
  /\ UNCHANGED <<slot, mutex, nextChan, cid, held, enable, gaVars>>
  /\ UNCHANGED <<handed, firstAfter, dispatched, frames, bcast, waited, trace, snapshot, split>>

\* the caller calls global_abort and never runs again
AbortFrom(reason) ==
  /\ GlobalAbortCall(reason)
  /\ UNCHANGED <<dispVars, callVars, histVars, fnVars>>

\* __req: rx.recv_direct() returns the response; a wrong channel or an
\* unknown state aborts, otherwise the state is returned
\* (channel_enable_state.rs:49-66); back in the New arm,
\* `if !__req(..) && enable { global_abort(..) }` (lines 85-90), and the
\* match ends
FnReqReceive(p) ==
  /\ Alive
  /\ pc[p] = "have"
  /\ op[p] = "new_receiver"
  /\ uarg[p] = ReqCommand
  /\ SendReturned(p)
  /\ HasMessage(rx[p])
  /\ LET response == chan[rx[p].c].sent[1]
     IN IF response[3] # CHANNEL THEN AbortFrom("InvalidChannel")
        ELSE IF response[4] \notin {1, 2} THEN AbortFrom("InvalidState")
        ELSE IF response[4] # 1 /\ enable[p] THEN AbortFrom("SetFailed")
        ELSE ReturnFrom(p, response)
  /\ UNCHANGED <<inbVars, reasmVars, usbVars, regVars, lifeVars, pureVars, xferVars, ctlVars, abortVars, portVars, taskVars>>

\* Provenance::Existing(mut rx): rx.recv_direct() returns the response of
\* the pending request; if it shows the wanted state the call returns,
\* otherwise the function calls itself (channel_enable_state.rs:92-103).
\* The receiver is of a channel that has been broadcast on: when it is
\* dropped makes no difference.
FnEnableExisting(p) ==
  /\ Alive
  /\ pc[p] = "have"
  /\ op[p] = "receiver"
  /\ prov[p] = "Existing"
  /\ HasMessage(rx[p])
  /\ LET response == chan[rx[p].c].sent[1]
     IN IF response[3] = CHANNEL /\ response[4] = enable_byte(enable[p])
        THEN /\ ReturnFrom(p, response)
             /\ UNCHANGED inbVars
        ELSE /\ nCalls < MaxFnCalls
             /\ nCalls' = nCalls + 1
             /\ chan' = [chan EXCEPT ![rx[p].c] = DropReceiver(@, FALSE)]
             /\ rx' = [rx EXCEPT ![p] = NoRx]
             /\ prov' = [prov EXCEPT ![p] = "none"]
             /\ seen' = [seen EXCEPT ![p] = 0]
             /\ pc' = [pc EXCEPT ![p] = "get"]
             /\ UNCHANGED <<slot, mutex, nextChan, op, cid, held, out>>
             /\ UNCHANGED <<ipc, msg, taken, nDispatch>>
             /\ UNCHANGED <<gaVars, histVars, fnVars>>
  /\ UNCHANGED <<reasmVars, usbVars, regVars, lifeVars, pureVars, xferVars, ctlVars, abortVars, portVars, taskVars>>

FnE(p) ==
  \/ FnEnable(p)
  \/ Get(p)
  \/ Insert(p)
  \/ Existing(p)
  \/ AwaitPending(p)
  \/ WaitDone(p)
  \/ FnEnableSendSet(p)
  \/ FnReq(p)
  \/ FnReqSend(p)
  \/ ReadLock(p)
  \/ Send(p)
  \/ FnReqReceive(p)
  \/ FnEnableExisting(p)

\* the device is Open and nothing has been called; each caller wants the
\* channel enabled or disabled
InitEnable ==
  /\ InitCallersOf(MaxFnCalls)
  /\ InitRestOf(MaxFnCalls)
  /\ transfers = <<>>
  /\ fname = "none"
  /\ fin = <<>>
  /\ fout = NoResult
  /\ enable \in [Procs -> BOOLEAN]
  /\ ipc = "loop"
  /\ stream = <<>>
  /\ frames = <<>>
  /\ pendingIn = N_TRANSFERS
  /\ status = "Open"
  /\ stale = FALSE
  /\ nComm = 1
  /\ registry = {"27000001"}
  /\ Constructed(registry)

NextEnable ==
  \/ \E p \in Procs : FnE(p)
  \/ \E f \in EnableFrames : DeviceFrame(f)
  \/ Dispatch
  \/ GlobalAbort

SpecEnable == InitEnable /\ [][NextEnable]_vars

(***************************************************************************)
(* Claims checked under SpecEnable.                                        *)
(***************************************************************************)
\* C22: set_channel_enable_state(1, true) sends the SET frame
\* [0x10,0x02,0x01,0x01,0x50,0x01] and then the REQ frame
\* [0x11,0x02,0x01,0x00,0x50,0x01]: every SET frame a caller that enables
\* the channel has put on the wire carries 0x01 in byte 3, and the REQ frame
\* follows it.
C22_SetFrameCarriesEnable ==
  \A i \in 1..Len(trace) :
    (IdOf(trace[i].frame) = SET /\ enable[trace[i].p]) =>
      trace[i].frame = <<16, 2, 1, 1, 80, 1>>

\* in the code a REQ frame is transmitted only after a GET_CHANENABLESTATE
\* frame that no REQ asked for has been dispatched
ReqOnlyAfterUnsolicitedFrame ==
  (\E i \in 1..Len(outgoing) : IdOf(outgoing[i]) = REQ) => nDispatch >= 1


(***************************************************************************)
(* SpecTransfers: the background task of the Communicator                  *)
(* (communicator.rs:97-142) when the endpoint reports given completions,   *)
(* byte for byte.                                                          *)
(***************************************************************************)
MaxTransfers == 3

\* completion buffers an endpoint may report: a transfer of three bytes or
\* more begins with two status bytes, a transfer may also be two bytes long
RawTransfers ==
  { <<255, 255, 68>>, <<4, 0>>, <<0, 80, 1>>,
    <<255, 255, 4, 0>>, <<255, 255, 0, 80, 1>> }

TransferScripts == UNION {[1..n -> RawTransfers] : n \in 1..MaxTransfers}

\* endpoint.next_complete().await (communicator.rs:102-103): the oldest
\* pending transfer completes with the next buffer
TransferOf ==
  /\ Alive
  /\ ipc = "wait"
  /\ pendingIn > 0
  /\ transfers # <<>>
  /\ completion' = Head(transfers)
  /\ cstatus' = "Ok"
  /\ transfers' = Tail(transfers)
  /\ delivered' = Append(delivered, Head(transfers))
  /\ pendingIn' = pendingIn - 1
  /\ ipc' = "completed"
  /\ UNCHANGED <<stream, queue, idbuf, flen>>
  /\ UNCHANGED <<msg, taken, nDispatch, nCalls>>
  /\ UNCHANGED <<dispVars, callVars, usbVars, regVars, gaVars, histVars, lifeVars, pureVars, fnVars, taskVars, ctlVars, abortVars, portVars>>

\* the device is open, N_TRANSFERS transfers are pending and will complete
\* with the buffers of `transfers`
InitTransfers ==
  /\ InitRest
  /\ fname = "none"
  /\ fin = <<>>
  /\ fout = NoResult
  /\ enable = [p \in Procs |-> TRUE]
  /\ \E w \in {"none", "live", "dropped"} : InitWaiter(w)
  /\ ipc = "wait"
  /\ transfers \in TransferScripts
  /\ frames = <<>>
  /\ stream = <<>>
  /\ pendingIn = N_TRANSFERS
  /\ status = "Open"
  /\ stale = FALSE
  /\ nComm = 1
  /\ registry = {"27000001"}
  /\ Constructed(registry)

NextTransfers ==
  \/ TransferOf
  \/ Inspect
  \/ FrameLoop
  \/ Resubmit
  \/ Dispatch
  \/ Recv("p1")
  \/ GlobalAbort

SpecTransfers == InitTransfers /\ [][NextTransfers]_vars

(***************************************************************************)
(* Claims checked under SpecTransfers.                                     *)
(***************************************************************************)
\* the three completions of the example
ExampleTransfers == << <<255, 255, 68>>, <<4, 0>>, <<0, 80, 1>> >>

\* the same data bytes with two status bytes in front of every transfer
PrefixedTransfers == << <<255, 255, 68>>, <<255, 255, 4, 0>>, <<255, 255, 0, 80, 1>> >>

\* the task has handled every completion reported and waits for the next
Handled(ts) == delivered = ts /\ ipc = "wait"

\* what the task copies out of a completion: nothing if actual_len <= 2,
\* else all but the first two bytes
Copied(buf) == IF Len(buf) > 2 THEN SubSeq(buf, 3, Len(buf)) ELSE <<>>

RECURSIVE CopiedOf(_)
CopiedOf(ts) == IF ts = <<>> THEN <<>> ELSE Copied(Head(ts)) \o CopiedOf(Tail(ts))

\* C24 as stated: once the completions [ff,ff,44], [04,00], [00,50,01] have
\* been handled, exactly one frame has been dispatched and its ID is 0x0444.
C24_ExampleDispatchesOneFrame ==
  Handled(ExampleTransfers) =>
    /\ Len(dispatched) = 1
    /\ IdOf(dispatched[1]) = MOVE_HOMED

\* C24 amended: the task skips the first two bytes of every transfer longer
\* than two bytes and ignores a transfer of two bytes or fewer, so the bytes
\* dispatched and the bytes left in the ring buffer are together the bytes
\* copied out of the completions handled; of the example's completions only
\* 0x44 and 0x01 are copied and no frame is dispatched; with two status
\* bytes in front of every transfer, exactly the frame 44 04 00 00 50 01 is
\* dispatched and the ring buffer is empty.
C24_SkipsTwoBytesOfLongTransfers ==
  /\ (ipc = "wait" /\ gaPc = "none") =>
       Concat(dispatched) \o queue = CopiedOf(delivered)
  /\ Handled(ExampleTransfers) => (dispatched = <<>> /\ queue = <<68, 1>>)
  /\ Handled(PrefixedTransfers) =>
       (dispatched = << <<68, 4, 0, 0, 80, 1>> >> /\ queue = <<>>)

\* the prefixed transfers were handled and the frame reached a waiting
\* receiver
C24_Witness ==
  /\ Handled(PrefixedTransfers)
  /\ dispatched = << <<68, 4, 0, 0, 80, 1>> >>
  /\ obs["p1"].frame = <<68, 4, 0, 0, 80, 1>>

\* the completions of the example were handled
C24_ExampleHandled == Handled(ExampleTransfers) /\ queue = <<68, 1>>


Chans == 1..MaxCalls

\* a step in which caller p is handed a receiver (by Insert or Existing)
Created(p) == rx[p].c = 0 /\ rx'[p].c # 0

\* a step in which dispatch takes the sender of ID x out of its slot; this
\* is the instant at which the frame msg is dispatched
Takes(x) == ipc = "take" /\ ipc' = "bcast" /\ IdOf(msg) = x

\* every receiver in a caller's hand is on a channel of the caller's ID that
\* carries at most one frame; until that frame is there, the channel's
\* sender is in the slot of the ID or is the one dispatch has just taken
ReceiverAwaitsNextFrame ==
  \A p \in Procs :
    rx[p].c # 0 =>
      LET c == rx[p].c
      IN /\ chan[c].id = cid[p]
         /\ Len(chan[c].sent) <= 1
         /\ chan[c].sent = <<>> =>
              \/ slot[cid[p]] = c
              \/ ipc = "bcast" /\ taken = c /\ IdOf(msg) = cid[p]
         /\ chan[c].sent # <<>> =>
              (chan[c].sent = <<bcast[c]>> /\ IdOf(bcast[c]) = cid[p])

\* of two channels of one ID the older one gets its frame first
ArrivalOrder ==
  \A c1, c2 \in Chans :
    (c1 < c2 /\ chan[c1].used /\ chan[c2].used /\ chan[c1].id = chan[c2].id
       /\ chan[c2].sent # <<>>) => chan[c1].sent # <<>>

FirstFrameAfterCreation ==
  /\ \A p \in Procs :
       /\ Created(p) =>
            /\ slot'[cid[p]] = rx'[p].c
            /\ chan'[rx'[p].c].sent = <<>>
            /\ rx'[p].sees
       /\ (obs'[p] # obs[p] /\ obs'[p] # NoObs) =>
            /\ obs'[p].c = rx[p].c
            /\ obs'[p].frame = bcast[rx[p].c]
            /\ IdOf(obs'[p].frame) = cid[p]
  /\ \A x \in IDS :
       /\ (slot[x] # 0 /\ slot'[x] # slot[x]) => (Takes(x) /\ slot'[x] = 0)
       /\ Takes(x) => (taken' = slot[x] /\ msg' = msg)
  /\ (ipc = "bcast" /\ ipc' = "bcast") => (msg' = msg /\ taken' = taken)
  /\ \A c \in Chans :
       /\ chan[c].sent # <<>> => chan'[c].sent = chan[c].sent
       /\ (chan[c].sent = <<>> /\ chan'[c].sent # <<>>) =>
            /\ ipc = "bcast" /\ taken = c
            /\ chan'[c].sent = <<msg>>
            /\ bcast'[c] = msg

\* C26: a receiver obtained from receiver(x) or any_receiver(x) observes at
\* most one frame, and it is the first frame of ID x that dispatch takes
\* the slot's sender for after the receiver was created: the receiver is
\* created on the channel whose sender is in the slot, with nothing sent on
\* it; the sender leaves the slot only when dispatch takes it for a frame
\* of ID x; that frame and no other is broadcast on the channel; what the
\* caller reads is that frame. Channels of one ID get their frames in the
\* order in which they were created.
C26_FirstFrameAfterCreation ==
  /\ [](ReceiverAwaitsNextFrame /\ ArrivalOrder)
  /\ [][FirstFrameAfterCreation]_vars

\* two receivers of MOVE_HOMED, created one after the other, have each read
\* a frame: the older the first frame, the younger the second
C26_Witness ==
  /\ obs["p1"] # NoObs /\ obs["p2"] # NoObs
  /\ obs["p1"].c < obs["p2"].c
  /\ obs["p1"].frame = FrameHomedA
  /\ obs["p2"].frame = FrameHomedB


\* the inbound task is in a dispatch whose take found the slot empty
FoundNone == ipc = "ret" /\ taken = 0

\* the Dispatcher and what its callers hold and have read
DispatcherState == <<slot, mutex, chan, nextChan, rx, bcast, obs>>

\* C27: when dispatch takes from a slot that is None, the take returns None
\* and dispatch returns to the frame loop: from the take to the return the
\* inbound task changes no slot and no channel, broadcasts nothing and does
\* not call global_abort; a frame is put on a channel only by a dispatch
\* whose take found a sender, so a receiver created later for that ID reads
\* a later frame, never the dropped one.
C27_DispatchOnNoneDropsFrame ==
  [][/\ (ipc = "take" /\ ipc' # "take") =>
          /\ IdOf(msg) \in IDS
          /\ slot[IdOf(msg)] = 0 =>
               /\ ipc' = "ret"
               /\ taken' = 0
               /\ UNCHANGED <<DispatcherState, gaVars, msg>>
     /\ (FoundNone /\ ipc' # "ret") =>
          /\ ipc' = "loop"
          /\ UNCHANGED <<DispatcherState, gaVars>>
     /\ \A c \in Chans :
          chan'[c].sent # chan[c].sent => (ipc = "bcast" /\ taken = c)]_vars

\* a MOVE_HOMED frame has been dropped while a caller waits for another ID
\* and nobody has aborted
C27_Witness ==
  /\ FoundNone
  /\ IdOf(msg) = MOVE_HOMED
  /\ Alive
  /\ \E p \in Procs :
       /\ pc[p] = "have"
       /\ cid[p] # MOVE_HOMED
       /\ slot[cid[p]] = rx[p].c
       /\ chan[rx[p].c].sent = <<>>


(***************************************************************************)
(* SpecReopen: a caller opens and closes the device while the inbound      *)
(* task runs and another caller waits for MOVE_HOMED.  The task is polled  *)
(* by the executor's thread, open and close run on the caller's: dropping  *)
(* the Task handle (mod.rs:133) marks the task cancelled and does not wait *)
(* for a poll in progress, which runs on to its next pending await, the    *)
(* timer or next_complete at the top of the loop (communicator.rs:101-102).*)
(***************************************************************************)
\* the device sends the two MOVE_HOMED frames in turn
ReopenFrames == {FrameHomedA, FrameHomedB}
ReopenSeqs ==
  {[i \in 1..MaxFrames |-> IF i % 2 = 1 THEN f ELSE CHOOSE g \in ReopenFrames : g # f] :
     f \in ReopenFrames}

\* the lengths of the data a transfer may carry: half a frame, a frame
ReopenCuts == {3, 6}

\* the executor polls the task of the current Communicator for the first
\* time (communicator.rs:86-101): its endpoint has N_TRANSFERS transfers
\* pending and its ring buffer is empty.  The executor has one thread, so
\* the poll of a cancelled task has ended before.
TaskStart ==
  /\ Alive
  /\ status = "Open"
  /\ stale
  /\ ipc = "wait"
  /\ stale' = FALSE
  /\ queue' = <<>>
  /\ completion' = <<>>
  /\ cstatus' = "Ok"
  /\ pendingIn' = N_TRANSFERS
  /\ UNCHANGED <<stream, idbuf, flen>>
  /\ UNCHANGED <<dispVars, callVars, inbVars, usbVars, regVars, gaVars, histVars, lifeVars, pureVars, fnVars, xferVars, ctlVars, abortVars, portVars>>

\* a task that has not been cancelled is woken by a completion
TaskTransfer(k) == ~stale /\ TransferComplete(k)

\* the caller that opens and closes
Reopener(p) ==
  \/ \E o \in {"open", "close"} : UsbCall(p, o, <<>>)
  \/ WriteLock(p)
  \/ \E outcome \in {"ok", "io_error"} : Open(p, outcome)
  \/ Close(p)

\* the caller that takes receivers for MOVE_HOMED and reads them
Waiter(p) ==
  \/ Call(p, "receiver", MOVE_HOMED)
  \/ Get(p)
  \/ Insert(p)
  \/ Recv(p)

\* the device has been constructed and is Closed, or has been opened and
\* its task waits for the first completion; p1 waits for MOVE_HOMED
InitReopen ==
  /\ InitRest
  /\ InitNoFunction
  /\ InitWaiter("live")
  /\ ipc = "wait"
  /\ frames \in ReopenSeqs
  /\ stream = Concat(frames)
  /\ \E s \in {"Open", "Closed"} :
       /\ status = s
       /\ stale = (s = "Closed")
       /\ nComm = IF s = "Open" THEN 1 ELSE 0
       /\ pendingIn = IF s = "Open" THEN N_TRANSFERS ELSE 0
  /\ registry = {"27000001"}
  /\ Constructed(registry)

NextReopen ==
  \/ Reopener("p2")
  \/ Waiter("p1")
  \/ TaskStart
  \/ \E k \in ReopenCuts : TaskTransfer(k)
  \/ Inspect
  \/ FrameLoop
  \/ Resubmit
  \/ Dispatch
  \/ GlobalAbort

SpecReopen == InitReopen /\ [][NextReopen]_vars


(***************************************************************************)
(* Claims checked under SpecReopen.                                        *)
(***************************************************************************)
\* the device was Closed at the start: p1 obtained its receiver, on channel
\* 1, while the device was Closed
InitiallyClosed == IF trace = <<>> THEN status = "Closed" ELSE trace[1].before = "Closed"

\* an open() that built a Communicator has returned
OpenedAt(i) == trace[i].op = "open" /\ trace[i].res = "Ok" /\ trace[i].before = "Closed"

\* a step in which an open() or a close() runs its body and returns
OpenOrCloseReturns ==
  \E p \in Procs : upc[p] = "locked" /\ uop[p] \in {"open", "close"} /\ upc'[p] = "idle"

C29_NothingAfterClose ==
  [][status = "Closed" =>
       /\ dispatched' = dispatched
       /\ ~(ipc = "take" /\ ipc' # "take")
       /\ ~(ipc = "bcast" /\ ipc' # "bcast")
       /\ pendingIn' <= pendingIn]_vars

\* a sender that has left its slot has been broadcast on: the task is not
\* stopped between take and broadcast
TakenSenderIsBroadcast ==
  \A c \in Chans :
    (chan[c].used /\ ~chan[c].sender) => chan[c].sent # <<>>


\* ---------------------------------------------------------------------------
\* serial_port::init inside Communicator::new inside UsbPrimitive::open, one
\* await at a time.  `control` logs what the claimed interface has been sent.
\* ---------------------------------------------------------------------------
ControlOut(request, value) == <<"control_out", request, value>>
Dwell(ms) == <<"timer", ms>>

RESET_CONTROLLER == ControlOut(0, 0)
BAUD_RATE == ControlOut(3, 26)
EIGHT_DATA_ONE_STOP_NO_PARITY == ControlOut(4, 8)
PURGE_RX == ControlOut(0, 1)
PURGE_TX == ControlOut(0, 2)
FLOW_CONTROL == ControlOut(2, 512)
RTS == ControlOut(1, 514)

\* The same transfers with no dwell before or after the purge.
InitWithoutDwell ==
  <<RESET_CONTROLLER, BAUD_RATE, EIGHT_DATA_ONE_STOP_NO_PARITY,
    PURGE_RX, PURGE_TX, FLOW_CONTROL, RTS>>

\* serial_port::init: the awaits of the function body, in program order.
init ==
  <<RESET_CONTROLLER, BAUD_RATE, EIGHT_DATA_ONE_STOP_NO_PARITY, Dwell(50),
    PURGE_RX, PURGE_TX, Dwell(50), FLOW_CONTROL, RTS>>

\* open() under the write lock: nothing to do on an Open device; on a Closed
\* one the interface is opened and claimed (`?` returns the io::Error).
OpenClaim(p, outcome) ==
  /\ Alive
  /\ upc[p] = "locked"
  /\ uop[p] = "open"
  /\ IF status = "Open"
     THEN /\ outcome = "ok"
          /\ UsbReturn(p, "Ok", status, outgoing, nComm)
          /\ UNCHANGED control
     ELSE IF outcome = "ok"
          THEN /\ upc' = [upc EXCEPT ![p] = "init"]
               /\ control' = <<>>
               /\ UNCHANGED <<uop, uarg, ures, ustat, status, nComm, outgoing,
                              rwWriter, rwReaders, trace>>
          ELSE /\ UsbReturn(p, "IoError", status, outgoing, nComm)
               /\ UNCHANGED control
  /\ UNCHANGED <<dispVars, callVars, inbVars, reasmVars, regVars, gaVars>>
  /\ UNCHANGED <<handed, firstAfter, dispatched, frames, lifeVars, pureVars, fnVars, xferVars, abortVars, portVars, taskVars, bcast, obs, waited, snapshot, split>>

\* One await of serial_port::init.  A control transfer whose status is an
\* error aborts the process; a timer always elapses.
InitStep(p, ok) ==
  /\ Alive
  /\ upc[p] = "init"
  /\ Len(control) < Len(init)
  /\ LET step == init[Len(control) + 1] IN
       IF ok
       THEN /\ control' = Append(control, step)
            /\ UNCHANGED gaVars
       ELSE /\ step[1] = "control_out"
            /\ GlobalAbortCall("ControlTransferFailed")
            /\ UNCHANGED control
  /\ UNCHANGED <<dispVars, callVars, inbVars, reasmVars, usbVars, regVars>>
  /\ UNCHANGED <<histVars, lifeVars, pureVars, fnVars, xferVars, abortVars, portVars, taskVars>>

\* The rest of Communicator::new (OUT endpoint, Self::spawn) and the
\* assignment of Status::Open in open(); no await lies between them.
OpenSpawn(p) ==
  /\ Alive
  /\ upc[p] = "init"
  /\ Len(control) = Len(init)
  /\ UsbReturn(p, "Ok", StatusOpen(status), outgoing, nComm + 1)
  /\ UNCHANGED control
  /\ UNCHANGED <<dispVars, callVars, inbVars, reasmVars, regVars, gaVars>>
  /\ UNCHANGED <<handed, firstAfter, dispatched, frames, lifeVars, pureVars, fnVars, xferVars, abortVars, portVars, taskVars, bcast, obs, waited, snapshot, split>>

Opener(p) ==
  \/ \E o \in {"open", "close"} : UsbCall(p, o, <<>>)
  \/ WriteLock(p)
  \/ \E outcome \in {"ok", "io_error"} : OpenClaim(p, outcome)
  \/ \E ok \in BOOLEAN : InitStep(p, ok)
  \/ OpenSpawn(p)
  \/ Close(p)

InitOpen ==
  /\ InitRest
  /\ InitNoFunction
  /\ InitWaiter("live")
  /\ ipc = "wait"
  /\ frames = <<>>
  /\ stream = <<>>
  /\ status = "Closed"
  /\ stale = TRUE
  /\ nComm = 0
  /\ pendingIn = 0
  /\ registry = {"27000001"}
  /\ Constructed(registry)

NextOpen ==
  \/ \E p \in Procs : Opener(p)
  \/ TaskStart
  \/ GlobalAbort

SpecOpen == InitOpen /\ [][NextOpen]_vars

\* The order of the bring-up as the specification lists it: request and value
\* of each control transfer, and the two 50 ms dwells.
ListedOrder ==
  << <<"control_out", 0, 0>>, <<"control_out", 3, 26>>, <<"control_out", 4, 8>>,
     <<"timer", 50>>,
     <<"control_out", 0, 1>>, <<"control_out", 0, 2>>,
     <<"timer", 50>>,
     <<"control_out", 2, 512>>, <<"control_out", 1, 514>> >>

InitialisedBeforeRunning ==
  /\ IsPrefix(control, ListedOrder)
  /\ status = "Open" => control = ListedOrder
  /\ ~stale => control = ListedOrder

SpawnedAfterLastTransfer ==
  (nComm' > nComm \/ (status = "Closed" /\ status' = "Open"))
    => control = ListedOrder /\ control' = control

\* C30: what an open() sends to the claimed interface is always a prefix of
\* reset (0x00/0x0000), baud rate (0x03/0x001A), line coding (0x04/0x0008),
\* 50 ms dwell, purge RX (0x00/0x0001), purge TX (0x00/0x0002), 50 ms dwell,
\* flow control (0x02/0x0200), RTS (0x01/0x0202); the Communicator with its
\* inbound task is built, the status becomes Open and the task runs only once
\* the whole list has been sent.
C30_InitOrderThenSpawn ==
  [](InitialisedBeforeRunning) /\ [][SpawnedAfterLastTransfer]_vars

\* C30 witness: a device opened by open(), its nine steps logged and its
\* inbound task running.
C30_Witness ==
  /\ status = "Open"
  /\ ~stale
  /\ Len(control) = 9
  /\ \E p \in Procs : uop[p] = "open" /\ ures[p] = "Ok"


\* ---------------------------------------------------------------------------
\* C31 (SpecInbound): completions of fewer than three bytes
\* ---------------------------------------------------------------------------
ShortCompletion == Len(completion) < 3

ShortInspected ==
  (ipc = "completed" /\ ShortCompletion /\ Alive)
    => /\ ipc' \in {"completed", "resubmit"}
       /\ queue' = queue
       /\ dispatched' = dispatched
       /\ msg' = msg
       /\ gaPc' = gaPc

ShortResubmitted ==
  (ipc = "resubmit" /\ ShortCompletion /\ Alive)
    => /\ ipc' \in {"resubmit", "wait"}
       /\ ipc' = "wait" => pendingIn' = N_TRANSFERS
       /\ queue' = queue
       /\ dispatched' = dispatched
       /\ gaPc' = gaPc

WaiterRegistered(p) ==
  /\ pc[p] = "have"
  /\ prov[p] = "New"
  /\ rx[p].c # 0
  /\ \/ slot[cid[p]] = rx[p].c
     \/ taken = rx[p].c
     \/ HasMessage(rx[p])

ResponseReceived(p) == pc[p] = "idle" /\ out[p] = "Ok"

\* C32: from the moment a function (stop through receiver, home through
\* new_receiver) submits its request frame until it has read the response,
\* its receiver is registered for the response ID: the sender of its channel
\* is in the slot, or being broadcast on, or has delivered the response.  A
\* response dispatched at any time after the send reaches the function.
C32_WaiterRegisteredBeforeSend ==
  \A p \in Procs :
    uop[p] = "send" => (WaiterRegistered(p) \/ ResponseReceived(p))

\* C32 witness: the request is on the OUT endpoint, the response has been
\* dispatched right after it and is waiting in the function's channel.
C32_Witness ==
  \E p \in Procs :
    /\ uop[p] = "send"
    /\ ures[p] = "Ok"
    /\ outgoing # <<>>
    /\ pc[p] = "have"
    /\ HasMessage(rx[p])
    /\ slot[cid[p]] = 0


(***************************************************************************)
(* SpecGuard: UsbPrimitive::new_receiver (mod.rs:179-181) against open and *)
(* close.  Its body is the single expression                               *)
(*   self.status.read().await.dispatcher().new_receiver(id).await          *)
(* whose read guard is a temporary of that expression: it is dropped when  *)
(* the expression has been evaluated, which is after the Dispatcher's      *)
(* new_receiver has returned.                                              *)
(***************************************************************************)
\* .dispatcher().new_receiver(id): the Dispatcher call starts under the guard
GuardedCall(p) ==
  /\ upc[p] = "locked"
  /\ uop[p] = "new_receiver"
  /\ pc[p] = "idle"
  /\ Call(p, "new_receiver", MOVE_HOMED)

\* the expression is evaluated: the receiver is returned to the caller and
\* the temporary read guard is dropped
GuardedReturn(p) ==
  /\ Alive
  /\ upc[p] = "locked"
  /\ uop[p] = "new_receiver"
  /\ pc[p] = "have"
  /\ UsbReturn(p, "Ok", status, outgoing, nComm)
  /\ UNCHANGED <<dispVars, callVars, inbVars, reasmVars, regVars, gaVars>>
  /\ UNCHANGED <<handed, firstAfter, dispatched, frames, lifeVars, pureVars, fnVars, xferVars, ctlVars, abortVars, portVars, taskVars, bcast, obs, waited, snapshot, split>>

\* the caller reads the response from the receiver it was given
GuardedRecv(p) ==
  /\ upc[p] = "idle"
  /\ Recv(p)

\* the inbound task of a freshly built Communicator starts to run
TaskRuns ==
  /\ Alive
  /\ status = "Open"
  /\ stale
  /\ ipc = "loop"
  /\ stale' = FALSE
  /\ UNCHANGED <<dispVars, callVars, inbVars, reasmVars, usbVars, regVars, gaVars, histVars, lifeVars, pureVars, fnVars, xferVars, ctlVars, abortVars, portVars>>

Guarded(p) ==
  \/ UsbCall(p, "new_receiver", <<>>)
  \/ ReadLock(p)
  \/ GuardedCall(p)
  \/ Get(p)
  \/ Insert(p)
  \/ Existing(p)
  \/ AwaitPending(p)
  \/ WaitDone(p)
  \/ GuardedReturn(p)
  \/ GuardedRecv(p)

\* a request for MOVE_HOMED is pending: its sender is in the slot and the
\* function that installed it still holds the receiver
InitGuard ==
  /\ InitRest
  /\ InitNoFunction
  /\ mutex = [i \in IDS |-> NoOne]
  /\ seen = [p \in Procs |-> 0]
  /\ held = [p \in Procs |-> <<>>]
  /\ out = [p \in Procs |-> "none"]
  /\ cid = [p \in Procs |-> MOVE_HOMED]
  /\ slot = [i \in IDS |-> IF i = MOVE_HOMED THEN 1 ELSE 0]
  /\ nextChan = 2
  /\ nCalls = 1
  /\ chan = [c \in 1..MaxCalls |->
               IF c = 1 THEN NewChannel(MOVE_HOMED, NoOne) ELSE NoChan]
  /\ pc = [p \in Procs |-> "idle"]
  /\ op = [p \in Procs |-> "none"]
  /\ prov = [p \in Procs |-> "none"]
  /\ rx = [p \in Procs |-> NoRx]
  /\ handed = [i \in IDS |-> IF i = MOVE_HOMED THEN {[prov |-> "New", c |-> 1]} ELSE {}]
  /\ firstAfter = [i \in IDS |-> IF i = MOVE_HOMED THEN "New" ELSE "none"]
  /\ ipc = "loop"
  /\ stream = <<>>
  /\ frames = <<>>
  /\ \E s \in {"Open", "Closed"} :
       /\ status = s
       /\ stale = (s = "Closed")
       /\ nComm = IF s = "Open" THEN 1 ELSE 0
       /\ pendingIn = IF s = "Open" THEN N_TRANSFERS ELSE 0
  /\ registry = {"27000001"}
  /\ Constructed(registry)

NextGuard ==
  \/ Guarded("p1")
  \/ Reopener("p2")
  \/ TaskRuns
  \/ DeviceFrame(FrameHomedA)
  \/ Dispatch

SpecGuard == InitGuard /\ [][NextGuard]_vars

\* p is suspended in new_receiver on the channel of the pending request
WaitsForPending(p) ==
  /\ uop[p] = "new_receiver"
  /\ pc[p] \in {"pending", "wait"}

\* C33: a caller suspended inside UsbPrimitive::new_receiver, waiting for the
\* pending request to complete, does not hold the Status lock, so open() and
\* close() can take the write lock meanwhile.
C33_WaitHoldsNoStatusLock ==
  \A p \in Procs : WaitsForPending(p) => p \notin rwReaders

\* the device is Closed with no frame being dispatched, a caller waits for
\* the pending request under its read guard, and an open() waits for the
\* write lock
OpenBehindWaiter ==
  /\ Alive
  /\ status = "Closed"
  /\ ipc = "loop"
  /\ \E w, o \in Procs :
       /\ pc[w] = "wait"
       /\ w \in rwReaders
       /\ chan[rx[w].c].sent = <<>>
       /\ ~chan[rx[w].c].closed
       /\ upc[o] = "lock"
       /\ uop[o] = "open"

\* once an open() waits behind such a caller, it waits for ever: no step of
\* the program leads out of that state
OpenBehindWaiterIsStuck ==
  [][OpenBehindWaiter => OpenBehindWaiter']_vars


(***************************************************************************)
(* SpecAbort: global_abort (utils.rs:140-152) with the callback that       *)
(* KDC101::new registers, `move || d.abort()` (kdc101.rs:48-50), where     *)
(* abort is estop (kdc101.rs:215-217) and estop is block_on(__estop(self,  *)
(* 1)) (kdc101.rs:200-207, stop.rs:32-43).  The callback runs on the       *)
(* thread that called global_abort, which stays inside block_on until the  *)
(* callback returns.                                                       *)
(***************************************************************************)
NoEstop == [pc |-> "none", c |-> 0, sees |-> FALSE, prov |-> "none"]

\* the callers of global_abort that are the inbound task itself:
\* Dispatcher::get on an unknown ID, dispatch on a failed broadcast
\* (dispatcher.rs:194-197), handle_error (communicator.rs:71-77)
InboundReasons == {"UnknownId", "BroadcastFailed", "TransferError"}

\* the inbound task meets a fault and calls global_abort
InboundFault(reason) ==
  /\ status = "Open"
  /\ ~stale
  /\ ipc = "loop"
  /\ Fault(reason)

\* a client thread calls global_abort while no call is under way
ClientFault ==
  /\ \A p \in Procs : pc[p] \in {"idle", "have"} /\ upc[p] = "idle"
  /\ Fault("SendFailed")

\* __estop: let rx = device.inner().receiver(&STOPPED).await (stop.rs:37),
\* through the read guard of the Status (mod.rs:173-175) and the slot mutex
EstopReceiver ==
  /\ gaPc = "draining"
  /\ cbRunning # NoOne
  /\ estop.pc = "none"
  /\ CanRead
  /\ MutexFree(MOVE_STOPPED)
  /\ LET id == MOVE_STOPPED
         c == nextChan
         old == slot[id]
     IN IF SlotIsNone(old)
        THEN /\ chan' = [chan EXCEPT ![c] = NewChannel(id, cbRunning)]
             /\ slot' = [slot EXCEPT ![id] = c]
             /\ nextChan' = c + 1
             /\ estop' = [pc |-> "send", c |-> c, sees |-> TRUE, prov |-> "New"]
             /\ handed' = [handed EXCEPT ![id] = @ \cup {[prov |-> "New", c |-> c]}]
             /\ firstAfter' = [firstAfter EXCEPT ![id] = IF @ = "none" THEN "New" ELSE @]
        ELSE /\ chan' = [chan EXCEPT ![old] = AddReceiver(@)]
             /\ estop' = [pc |-> "receive", c |-> old,
                          sees |-> chan[old].sent = <<>>, prov |-> "Existing"]
             /\ handed' = [handed EXCEPT ![id] = @ \cup {[prov |-> "Existing", c |-> old]}]
             /\ firstAfter' = [firstAfter EXCEPT ![id] = IF @ = "none" THEN "Existing" ELSE @]
             /\ UNCHANGED <<slot, nextChan>>
  /\ UNCHANGED mutex
  /\ UNCHANGED <<callVars, inbVars, reasmVars, usbVars, regVars, gaVars>>
  /\ UNCHANGED <<dispatched, frames, lifeVars, pureVars, fnVars, xferVars, ctlVars, portVars, taskVars, bcast, obs, waited, trace, snapshot, split>>

\* if rx.is_new() { device.inner().send(short(STOP, channel, 0x01)).await }
\* (stop.rs:38-41): the result of send is discarded
EstopSend ==
  /\ gaPc = "draining"
  /\ estop.pc = "send"
  /\ CanRead
  /\ outgoing' = IF status = "Open"
                 THEN Append(outgoing, short(STOP, CHANNEL, 1))
                 ELSE outgoing
  /\ estop' = [estop EXCEPT !.pc = "receive"]
  /\ UNCHANGED <<status, rwWriter, rwReaders, nComm, upc, uop, uarg, ures, ustat, trace>>
  /\ UNCHANGED <<dispVars, callVars, inbVars, reasmVars, regVars, gaVars>>
  /\ UNCHANGED <<handed, firstAfter, dispatched, frames, lifeVars, pureVars, fnVars, xferVars, ctlVars, portVars, taskVars, bcast, obs, waited, snapshot, split>>

\* let _ = rx.receive().await (stop.rs:42); then __estop, block_on, abort
\* and the callback return to for_each
EstopReceive ==
  /\ gaPc = "draining"
  /\ estop.pc = "receive"
  /\ HasMessage(estop)
  /\ chan' = [chan EXCEPT ![estop.c] = DropReceiver(@, FALSE)]
  /\ estop' = NoEstop
  /\ cbRunning' = NoOne
  /\ UNCHANGED <<slot, mutex, nextChan>>
  /\ UNCHANGED <<registry, regLock, drained, invoked, rpc, rarg, nRegOps>>
  /\ UNCHANGED <<callVars, inbVars, reasmVars, usbVars, gaVars, histVars, lifeVars, pureVars, fnVars, xferVars, ctlVars, portVars, taskVars>>

\* the device has been told to stop and answers with MOVE_STOPPED
StopRequested ==
  \E i \in 1..Len(outgoing) : outgoing[i] \in SendFrames

\* while global_abort runs on another thread, the inbound task of an Open
\* device goes on: it dispatches the MOVE_STOPPED frame the device sends
AbortDispatch ==
  /\ gaPc = "draining"
  /\ gaReason \notin InboundReasons
  /\ status = "Open"
  /\ ~stale
  /\ ipc = "loop"
  /\ StopRequested
  /\ MutexFree(MOVE_STOPPED)
  /\ slot[MOVE_STOPPED] # 0
  /\ ~chan[slot[MOVE_STOPPED]].closed
  /\ LET c == slot[MOVE_STOPPED]
     IN /\ chan' = [chan EXCEPT ![c] = DropSender([@ EXCEPT !.sent = <<FrameStopped>>])]
        /\ bcast' = [bcast EXCEPT ![c] = FrameStopped]
        /\ slot' = TakeSlot(MOVE_STOPPED)
        /\ handed' = [handed EXCEPT ![MOVE_STOPPED] = {}]
        /\ firstAfter' = [firstAfter EXCEPT ![MOVE_STOPPED] = "none"]
        /\ dispatched' = Append(dispatched, FrameStopped)
  /\ UNCHANGED <<mutex, nextChan>>
  /\ UNCHANGED <<callVars, inbVars, reasmVars, usbVars, regVars, gaVars>>
  /\ UNCHANGED <<frames, lifeVars, pureVars, fnVars, xferVars, ctlVars, abortVars, portVars, taskVars, obs, waited, trace, snapshot, split>>

\* a client that stops the device, and one that opens and closes it
Stopper(p) ==
  \/ FnStop(p)
  \/ Get(p)
  \/ Insert(p)
  \/ Existing(p)
  \/ FnSend(p)
  \/ ReadLock(p)
  \/ Send(p)
  \/ FnReceive(p)

Switcher(p) ==
  \/ \E o \in {"open", "close"} : UsbCall(p, o, <<>>)
  \/ WriteLock(p)
  \/ \E outcome \in OpenOutcomes : Open(p, outcome)
  \/ Close(p)

NextAbort ==
  \/ \E p \in Procs : Stopper(p)
  \/ Switcher("p1")
  \/ TaskRuns
  \/ DeviceFrame(FrameStopped)
  \/ Dispatch
  \/ \E reason \in {"UnknownId", "TransferError"} : InboundFault(reason)
  \/ ClientFault
  \/ GlobalAbortDrain
  \/ \E sn \in Serials : GlobalAbortInvoke(sn)
  \/ EstopReceiver
  \/ EstopSend
  \/ EstopReceive
  \/ AbortDispatch
  \/ GlobalAbortPanic

\* one device, registered, Open or Closed; the callback's estop may need a
\* channel beyond those of the clients' calls
InitAbort ==
  /\ InitCallersOf(MaxCalls + 1)
  /\ InitRestOf(MaxCalls + 1)
  /\ InitNoFunction
  /\ ipc = "loop"
  /\ stream = <<>>
  /\ frames = <<>>
  /\ \E s \in {"Open", "Closed"} :
       /\ status = s
       /\ stale = (s = "Closed")
       /\ nComm = IF s = "Open" THEN 1 ELSE 0
       /\ pendingIn = IF s = "Open" THEN N_TRANSFERS ELSE 0
  /\ registry = {"27000001"}
  /\ Constructed(registry)

\* the scheduler runs whatever can run
SpecAbort == InitAbort /\ [][NextAbort]_vars /\ WF_vars(NextAbort)

EstopWaitsForItsOwnThread ==
  /\ gaPc = "draining"
  /\ gaReason \in InboundReasons
  /\ estop.pc = "receive"
  /\ ~HasMessage(estop)

\* the device is Closed: estop's send was refused and it waits for a frame no
\* inbound task will deliver
EstopWaitsOnClosedDevice ==
  /\ gaPc = "draining"
  /\ status = "Closed"
  /\ rwWriter = NoOne
  /\ estop.pc = "receive"
  /\ estop.prov = "New"
  /\ ~HasMessage(estop)

\* from either state global_abort makes no further step
EstopNeverReturns ==
  [][(EstopWaitsForItsOwnThread \/ EstopWaitsOnClosedDevice) => UNCHANGED vars]_vars

\* global_abort does reach its panic when a client thread calls it on an
\* Open device whose inbound task is running
AbortCompletedOnOpenDevice ==
  /\ gaPc = "panicked"
  /\ invoked["27000001"] = 1
  /\ status = "Open"


(***************************************************************************)
(* SpecStop: stop and estop (functions/stop.rs) called concurrently on one *)
(* device.  Both register on the slot of MOVE_STOPPED.                     *)
(***************************************************************************)
\* estop: let rx = device.inner().receiver(&STOPPED).await (stop.rs:37)
FnEstop(p) ==
  /\ uop[p] = "none"
  /\ Call(p, "receiver", MOVE_STOPPED)

\* if rx.is_new() { send(short(STOP, channel, 0x01)) } (stop.rs:38-41)
FnEstopSend(p) ==
  /\ pc[p] = "have"
  /\ uop[p] = "none"
  /\ prov[p] = "New"
  /\ UsbCall(p, "send", short(STOP, CHANNEL, 1))

StopCaller(p) ==
  \/ FnStop(p)
  \/ FnSend(p)

EstopCaller(p) ==
  \/ FnEstop(p)
  \/ FnEstopSend(p)

NextStop ==
  \/ StopCaller("p1")
  \/ EstopCaller("p2")
  \/ \E p \in Procs : Get(p) \/ Insert(p) \/ Existing(p) \/ ReadLock(p) \/ Send(p) \/ FnReceive(p)
  \/ DeviceFrame(FrameStopped)
  \/ Dispatch

SpecStop == InitFn /\ [][NextStop]_vars

\* estop has returned to its caller with the frame it waited for
EstopReturned == pc["p2"] = "idle" /\ out["p2"] = "Ok"

ImmediateStopSubmitted ==
  \E i \in 1..Len(outgoing) : outgoing[i] = <<101, 4, CHANNEL, 1, 80, 1>>

\* C35: when estop was called on an Open device and has returned, the
\* immediate-stop frame [0x65,0x04,channel,0x01,0x50,0x01] has been submitted
\* to the OUT endpoint, also when a profiled stop was pending on the
\* MOVE_STOPPED slot.
C35_EstopSubmitsImmediateStop ==
  (status = "Open" /\ EstopReturned) => ImmediateStopSubmitted

\* estop found no stop pending, sent its frame and returned
EstopAloneSubmits ==
  /\ status = "Open"
  /\ EstopReturned
  /\ uop["p2"] = "send"
  /\ ImmediateStopSubmitted

\* estop sends exactly when its receiver is New
EstopSendsOnlyWhenNew ==
  (status = "Open" /\ EstopReturned /\ ~ImmediateStopSubmitted) => uop["p2"] = "none"


\* ---------------------------------------------------------------------------
\* C36 (Spec): the life of a sender in its slot
\* ---------------------------------------------------------------------------
\* a slot changes only by an insert into an empty slot or by the take of
\* dispatch
SlotChangesByInsertOrTake ==
  [][\A id \in IDS :
       slot'[id] # slot[id] =>
         \/ slot[id] = 0
         \/ slot'[id] = 0 /\ ipc = "take" /\ taken' = slot[id]]_vars

\* C36: a sender leaves its slot only through the take of dispatch, which
\* broadcasts on it, so no receiver handed out by the Dispatcher ever
\* observes a closed channel: no recv returns Closed.
C36_NoReceiverObservesClosed ==
  \A p \in Procs : out[p] # "Closed"

\* a receiver handed out as Existing on a channel whose first receiver was
\* dropped reads Closed while the sender is still in its slot
ClosedWhileSenderInSlot ==
  \E p \in Procs :
    /\ pc[p] = "have"
    /\ prov[p] = "Existing"
    /\ chan[rx[p].c].closed
    /\ chan[rx[p].c].dropped
    /\ slot[cid[p]] = rx[p].c


(***************************************************************************)
(* SpecHandles: KDC101::new, open, close and the drop of the last facade   *)
(* handle, with the devices of Serials plugged in.                         *)
(***************************************************************************)
Plugged(sn) == [vendor |-> FTDI, serial |-> sn]

InitHandles ==
  /\ InitCommon
  /\ ipc = "wait"
  /\ stream = <<>>
  /\ frames = <<>>
  /\ pendingIn = 0
  /\ status = "Closed"
  /\ stale = TRUE
  /\ nComm = 0
  /\ registry = {}
  /\ life = [sn \in Serials |-> "none"]
  /\ bus \in {<<Plugged("27000001")>>,
              <<Plugged("27000001"), Plugged("27000002")>>,
              <<Plugged("27000002"), Plugged("27000001")>>}

NextHandles ==
  \/ \E sn \in Serials : KDC101_new(sn)
  \/ \E sn \in Serials : Drop(sn)
  \/ LifeUsb("p1")

SpecHandles == InitHandles /\ [][NextHandles]_vars

SolicitedFrame(f) ==
  /\ Alive
  /\ ipc = "loop"
  /\ slot[IdOf(f)] # 0
  /\ msg' = f
  /\ ipc' = "take"
  /\ nDispatch' = nDispatch + 1
  /\ UNCHANGED <<taken, nCalls>>
  /\ UNCHANGED <<dispVars, callVars, reasmVars, usbVars, regVars, gaVars, histVars, lifeVars, pureVars, fnVars, xferVars, ctlVars, abortVars, portVars, taskVars>>

\* the steps of a call that the executor takes without the caller's choice
Progress(p) ==
  \/ Get(p)
  \/ Insert(p)
  \/ Existing(p)
  \/ AwaitPending(p)
  \/ WaitDone(p)
  \/ Recv(p)
  \/ RecvClosed(p)

WaitCaller(p) ==
  \/ \E o \in Ops : CallUpTo(p, o, MOVE_HOMED, MaxCalls + 1)
  \/ Progress(p)
  \/ DropRx(p)

InitWait ==
  /\ InitCallersOf(MaxCalls + 1)
  /\ InitRestOf(MaxCalls + 1)
  /\ InitNoFunction
  /\ ipc = "loop"
  /\ stream = <<>>
  /\ frames = <<>>
  /\ pendingIn = N_TRANSFERS
  /\ status = "Open"
  /\ stale = FALSE
  /\ nComm = 1
  /\ registry = {"27000001"}
  /\ Constructed(registry)

NextWait ==
  \/ \E p \in Procs : WaitCaller(p)
  \/ SolicitedFrame(FrameHomedA)
  \/ Dispatch
  \/ GlobalAbort

FairWait ==
  /\ \A p \in Procs :
       /\ WF_vars(Get(p))
       /\ WF_vars(Insert(p))
       /\ WF_vars(Existing(p))
       /\ WF_vars(AwaitPending(p))
       /\ WF_vars(WaitDone(p))
       /\ WF_vars(Recv(p))
       /\ WF_vars(RecvClosed(p))
  /\ WF_vars(SolicitedFrame(FrameHomedA))
  /\ WF_vars(Dispatch)
  /\ WF_vars(GlobalAbort)

SpecWait == InitWait /\ [][NextWait]_vars /\ FairWait

\* a call of new_receiver has been made and has not returned
NewReceiverPending(p) ==
  op[p] = "new_receiver" /\ pc[p] \in {"get", "insert", "existing", "pending", "wait", "waitc"}

\* new_receiver has handed its caller the receiver of the New arm
NewReceiverReturned(p) ==
  op[p] = "new_receiver" /\ pc[p] = "have"

AbandonedSender ==
  \E c \in 1..(MaxCalls + 1) :
    /\ chan[c].used
    /\ chan[c].closed
    /\ chan[c].sent = <<>>

\* a new_receiver call waits on the closed channel of an abandoned sender,
\* or is about to look at the slot that still holds it
NewReceiverBehindAbandoned ==
  \E p \in Procs :
    /\ NewReceiverPending(p)
    /\ slot[cid[p]] # 0
    /\ chan[slot[cid[p]]].closed

\* the process aborted while a new_receiver call had not returned
AbortedWhilePending ==
  \E p \in Procs : NewReceiverPending(p) /\ gaReason = "BroadcastFailed"

\* as long as no caller abandons the receiver of a pending request, every
\* call of new_receiver returns
ReturnsUnlessAbandoned ==
  \A p \in Procs :
    NewReceiverPending(p) ~> (NewReceiverReturned(p) \/ AbandonedSender)

\* the guard of the slot mutex is gone before the call waits on the channel
WaitsWithoutSlotMutex ==
  \A p \in Procs :
    pc[p] \in {"pending", "wait", "waitc"} => mutex[cid[p]] # p

\* a call that waited twice behind other callers' requests has returned
ReturnedAfterTwoWaits ==
  \E p \in Procs :
    /\ NewReceiverReturned(p)
    /\ Len(held[p]) = 0
    /\ waited[p]
    /\ nextChan = MaxCalls + 2
    /\ ~AbandonedSender


(***************************************************************************)
(* SpecDecode: what __get_u_status_update does with the response it        *)
(* breaks out of its loop with (functions/status_update.rs:52-58,          *)
(* traits/unit_conversion.rs:47-72, 138-147).                              *)
(***************************************************************************)
\* well-formed GET_USTATUSUPDATE frames: header, channel, four bytes of
\* position, two of velocity, two of motor current, four of status bits
StatusResponses ==
  {GET_USTATUSUPDATE \o <<14, 0, DEVICE_LONG, HOST>> \o <<ch, 0>> \o pos \o vel
     \o <<7, 8>> \o <<0, 0, 0, 128>> :
       ch \in {CHANNEL, CHANNEL + 1},
       pos \in [1..4 -> ByteInputs],
       vel \in [1..2 -> {0, 255}]}

\* &response[a..b]: the bytes at offsets a to b - 1
Slice(response, a, b) == SubSeq(response, a + 1, b)

\* slice.try_into().unwrap_or_else(|e| abort(..)) (unit_conversion.rs:47-54):
\* TryFrom<&[u8]> for [u8; 4] succeeds exactly on a slice of four bytes; on
\* any other the closure runs abort, which does not return
array_from_slice(slice) ==
  IF Len(slice) = 4 THEN [ok |-> TRUE, val |-> slice]
  ELSE [ok |-> FALSE, val |-> <<>>]

\* i32::from_le_bytes (unit_conversion.rs:143-144);
\* the top bit of the last byte is the sign
i32_from_le_bytes(b) ==
  b[1] + 256 * b[2] + 65536 * b[3]
    + 16777216 * (IF b[4] >= 128 THEN b[4] - 256 ELSE b[4])

\* Units::decode::<A> (unit_conversion.rs:138-147): the device units as i32,
\* divided by the scale factor of the quantity
decode(units, factor) == [units |-> i32_from_le_bytes(units), per |-> factor]

\* status_update.rs:56-58: position from response[8..12], velocity from
\* response[12..14]; either conversion may abort instead of returning
status_from_response(response) ==
  LET d == array_from_slice(Slice(response, 8, 12))
      v == array_from_slice(Slice(response, 12, 14))
  IN IF ~d.ok \/ ~v.ok
     THEN [abort |-> TRUE, position |-> <<>>, velocity |-> <<>>]
     ELSE [abort |-> FALSE,
           position |-> decode(d.val, "DISTANCE_ANGLE_SCALE_FACTOR"),
           velocity |-> decode(v.val, "VELOCITY_SCALE_FACTOR")]

\* if response[6] == channel { break response } and the two conversions
\* (status_update.rs:52-58)
CallStatusFromResponse ==
  /\ fname = "get_u_status_update"
  /\ fin[7] = CHANNEL
  /\ Returns(status_from_response(fin))

\* a response for another channel: the loop goes round and the function
\* waits for the next response (status_update.rs:45-55)
NextResponse ==
  /\ fname = "get_u_status_update"
  /\ ~fout.done
  /\ fin[7] # CHANNEL
  /\ fin' \in {r \in StatusResponses : r[7] = CHANNEL}
  /\ UNCHANGED <<fname, fout, lifeVars, fnVars, xferVars, ctlVars, abortVars, portVars, taskVars>>
  /\ UNCHANGED <<dispVars, callVars, inbVars, reasmVars, usbVars, regVars, gaVars, histVars>>

InitDecode ==
  /\ InitCallers
  /\ InitRest
  /\ transfers = <<>>
  /\ ipc = "wait"
  /\ stream = <<>>
  /\ frames = <<>>
  /\ pendingIn = 0
  /\ status = "Closed"
  /\ stale = TRUE
  /\ nComm = 0
  /\ registry = {}
  /\ Constructed(registry)
  /\ fname = "get_u_status_update"
  /\ fin \in StatusResponses
  /\ fout = NoResult
  /\ enable = [p \in Procs |-> TRUE]

NextDecode ==
  \/ CallStatusFromResponse
  \/ NextResponse

SpecDecode == InitDecode /\ [][NextDecode]_vars

\* C39: for every well-formed 20-byte GET_USTATUSUPDATE response whose channel
\* byte matches, get_u_status_update returns the position decoded from bytes
\* 8..12 and the velocity, and does not abort.
C39_ValidResponseNeverAborts ==
  fout.done =>
    /\ ~fout.val.abort
    /\ fout.val.position.units = i32_from_le_bytes(Slice(fin, 8, 12))

\* the function was given a well-formed response for its channel and aborted
StatusUpdateAborted ==
  /\ Len(fin) = 20
  /\ fin[7] = CHANNEL
  /\ fout.done
  /\ fout.val.abort

\* every response the function breaks out of its loop with aborts the process
EveryValidResponseAborts ==
  fout.done => fout.val.abort

\* the conversion of the position, taken alone, succeeds on every response
PositionConverts ==
  \A r \in StatusResponses :
    LET d == array_from_slice(Slice(r, 8, 12))
    IN d.ok /\ Len(Slice(r, 12, 14)) = 2


(***************************************************************************)
(* SpecPort: the earlier UsbDevicePrimitive.  Threads call write_port for  *)
(* messages of one group while the listening task runs read_port           *)
(* (enumeration/usb_device_primitive.rs:94-111, 134-155).                  *)
(***************************************************************************)
MaxWrites == 3    \* write_port calls in one run

OtherVars ==
  <<dispVars, callVars, inbVars, reasmVars, usbVars, regVars, gaVars, histVars,
    lifeVars, pureVars, fnVars, xferVars, ctlVars, abortVars, taskVars>>

\* group.waiting_sender.read()?.is_some() (usb_device_primitive.rs:97)
is_some(ws) == ws # 0

\* if group.waiting_sender.read()?.is_some() { return Err(OneshotSenderExists) }
\* (usb_device_primitive.rs:95-99): the read guard is a temporary of the
\* condition and is gone when the condition has been evaluated
WritePortCheck(p) ==
  /\ port.pc[p] = "idle"
  /\ port.calls < MaxWrites
  /\ port' = IF is_some(port.waiting_sender)
             THEN [port EXCEPT !.calls = @ + 1,
                               !.res[p] = "OneshotSenderExists",
                               !.rx[p] = 0,
                               !.left[p] = port.waiting_sender]
             ELSE [port EXCEPT !.calls = @ + 1,
                               !.res[p] = "none",
                               !.rx[p] = 0,
                               !.pc[p] = "checked"]
  /\ UNCHANGED OtherVars

\* let (tx, rx) = channel(); group.waiting_sender.write()?.replace(tx)
\* (usb_device_primitive.rs:100-101): a second guard; replace drops whatever
\* sender the group held
WritePortReplace(p) ==
  /\ port.pc[p] = "checked"
  /\ port' = [port EXCEPT !.waiting_sender = port.next,
                          !.rx[p] = port.next,
                          !.next = @ + 1,
                          !.replaced = IF port.waiting_sender = 0 THEN @
                                       ELSE @ \cup {port.waiting_sender},
                          !.pc[p] = "installed"]
  /\ UNCHANGED OtherVars

\* write_bulk(OUT_ENDPOINT, &data, TIMEOUT)?: all bytes written and Ok(rx),
\* or an error returned through `?` (usb_device_primitive.rs:102-110)
WritePortBulk(p, ok) ==
  /\ port.pc[p] = "installed"
  /\ port' = [port EXCEPT !.written = IF ok THEN @ + 1 ELSE @,
                          !.res[p] = IF ok THEN "Ok" ELSE "DeviceMessageSendFailure",
                          !.left[p] = port.waiting_sender,
                          !.pc[p] = "idle"]
  /\ UNCHANGED OtherVars

\* read_port reads the answer to a request the device has received and takes
\* the waiting sender of its group: waiting_sender.write()?.take(), then
\* sender.send(message) (usb_device_primitive.rs:142-151)
ReadPort ==
  /\ port.read < port.written
  /\ port' = [port EXCEPT !.read = @ + 1,
                          !.waiting_sender = 0,
                          !.consumed = IF port.waiting_sender = 0 THEN @
                                       ELSE @ \cup {port.waiting_sender}]
  /\ UNCHANGED OtherVars

\* no device of the later design is involved
InitPort ==
  /\ InitCallers
  /\ InitRest
  /\ InitNoFunction
  /\ ipc = "wait"
  /\ stream = <<>>
  /\ frames = <<>>
  /\ pendingIn = 0
  /\ status = "Closed"
  /\ stale = TRUE
  /\ nComm = 0
  /\ registry = {}
  /\ Constructed(registry)

NextPort ==
  \/ \E p \in Procs : WritePortCheck(p)
  \/ \E p \in Procs : WritePortReplace(p)
  \/ \E p \in Procs, ok \in BOOLEAN : WritePortBulk(p, ok)
  \/ ReadPort

SpecPort == InitPort /\ [][NextPort]_vars

\* the write_port calls that have passed the check and not yet returned
PastCheck == {p \in Procs : port.pc[p] \in {"checked", "installed"}}

\* C40: in the earlier write_port, checking for and installing the waiting
\* sender is atomic: of two concurrent calls at most one gets past the check,
\* an installed sender is never replaced before the inbound side consumes it,
\* and a call that returns because the bulk write failed leaves the group
\* with no waiting sender.
C40_WritePortInstallAtomic ==
  /\ Cardinality(PastCheck) <= 1
  /\ port.replaced = {}
  /\ \A p \in Procs :
       port.res[p] = "DeviceMessageSendFailure" => port.left[p] = 0

\* two calls both found no sender and both installed one: the second replaced
\* the first, whose caller holds a receiver that will never get a message
SenderReplaced ==
  \E p, q \in Procs :
    /\ p # q
    /\ port.res[p] = "Ok"
    /\ port.rx[p] \in port.replaced
    /\ port.rx[p] \notin port.consumed
    /\ port.waiting_sender = port.rx[q]

\* the bulk write failed and the sender of the failed call is still installed
SenderLeftAfterFailedWrite ==
  \E p \in Procs :
    /\ port.res[p] = "DeviceMessageSendFailure"
    /\ port.pc[p] = "idle"
    /\ port.waiting_sender = port.rx[p]

\* a later call is refused although the device has no request to answer
RefusedWithNothingPending ==
  \E p \in Procs :
    /\ port.res[p] = "OneshotSenderExists"
    /\ port.written = port.read
    /\ \A q \in Procs : port.pc[q] = "idle"

\* a call is refused only when it found a sender installed
RefusedOnlyWhenInstalled ==
  \A p \in Procs : port.res[p] = "OneshotSenderExists" => port.left[p] # 0

====
